---- MODULE Spec2Model ----
(***************************************************************************)
(* Rebels in the sky: the resource ledger (src/types.rs), the own-team     *)
(* intents of UiCallback (src/ui/ui_callback.rs) and the trade protocol    *)
(* between two peers.                                                      *)
(*                                                                         *)
(* Integers: Rust's u32 is modelled by a word of U32Limit values           *)
(* (0 .. U32_MAX), a scaled-down 2^32.  An arithmetic overflow aborts the  *)
(* process when the build has overflow checks (debug profile) and wraps    *)
(* modulo U32Limit otherwise (release profile); overflow_checks is chosen  *)
(* in Init and never changes.                                              *)
(***************************************************************************)
EXTENDS Integers, FiniteSets, Sequences, TLC

VARIABLES
    overflow_checks,  \* TRUE: arithmetic overflow panics; FALSE: it wraps
    resources,        \* SpecLedger: the ResourceMap under test
    ledger_call,      \* SpecLedger: the last ledger call, its inputs and result
                      \* (SpecTick: the last call on a Tick)
    app,              \* the local process: App { world, ui, network_handler }
    peer,             \* the remote process owning the remote team (same shape)
    network,          \* trade messages in flight between the two processes
    now               \* the wall clock read by Tick::now()

vars == <<overflow_checks, resources, ledger_call, app, peer, network, now>>
world_vars == <<app, peer, network, now>>
ledger_vars == <<resources, ledger_call>>

----------------------------------------------------------------------------
(* Bounds *)

U32Limit == 64
MaxQuantity == 2
MaxNow == 2
MaxInFlight == 2

U32_MAX == U32Limit - 1
I32_MAX == (U32Limit \div 2) - 1
I32_MIN == 0 - (U32Limit \div 2)

Min(a, b) == IF a < b THEN a ELSE b
Max(a, b) == IF a > b THEN a ELSE b

----------------------------------------------------------------------------
(* src/world/resources.rs *)

Resource == {"SATOSHI", "GOLD", "SCRAPS", "FUEL", "RUM"}

to_storing_space(resource) ==
    CASE resource = "SATOSHI" -> 0
      [] resource = "GOLD" -> 2
      [] resource = "SCRAPS" -> 10
      [] resource = "FUEL" -> 0
      [] resource = "RUM" -> 1

----------------------------------------------------------------------------
(* src/types.rs: impl StorableResourceMap for ResourceMap.                 *)
(* A ResourceMap is a function from a subset of Resource to u32.           *)

Wrap(x) == x % U32Limit

\* HashMap::get(resource).copied().unwrap_or_default()
value(map, resource) == IF resource \in DOMAIN map THEN map[resource] ELSE 0

\* The exact (unbounded) sum of to_storing_space(k) * v over the map.
UsedExact(map) ==
    to_storing_space("SATOSHI") * value(map, "SATOSHI")
    + to_storing_space("GOLD") * value(map, "GOLD")
    + to_storing_space("SCRAPS") * value(map, "SCRAPS")
    + to_storing_space("FUEL") * value(map, "FUEL")
    + to_storing_space("RUM") * value(map, "RUM")

\* The products and partial sums are non-negative, so some step of the u32
\* computation overflows exactly when the exact sum exceeds U32_MAX.
UsedOverflows(map) == UsedExact(map) > U32_MAX

\* used_storage_capacity() as the u32 the release build returns.
used_storage_capacity(map) == Wrap(UsedExact(map))

\* HashMap::entry(resource).and_modify(f).or_insert(d)
Entry(map, resource, v) ==
    [k \in (DOMAIN map) \cup {resource} |-> IF k = resource THEN v ELSE map[k]]

u32_saturating_add(a, b) == Min(a + b, U32_MAX)
u32_saturating_sub(a, b) == Max(a - b, 0)

Ok == "Ok"
Panic == "Panic"
IsErr(res) == res \notin {Ok, Panic}

AddErr == "Not enough storage to add resource"
SubErr == "Not enough resources to remove"

add(map, resource, amount, max_capacity) ==
    LET extra == to_storing_space(resource) * amount
        total == used_storage_capacity(map) + Wrap(extra)
        overflow == UsedOverflows(map) \/ extra > U32_MAX \/ total > U32_MAX
    IN  IF overflow /\ overflow_checks
        THEN [res |-> Panic, map |-> map]
        ELSE IF Wrap(total) > max_capacity
        THEN [res |-> AddErr, map |-> map]
        ELSE [res |-> Ok,
              map |-> Entry(map, resource,
                        IF resource \in DOMAIN map
                        THEN u32_saturating_add(map[resource], amount)
                        ELSE amount)]

saturating_add(map, resource, amount, max_capacity) ==
    LET space == to_storing_space(resource)
        free == max_capacity - used_storage_capacity(map)
        overflow == space # 0 /\ (UsedOverflows(map) \/ free < 0)
        max_amount == IF space = 0 THEN amount
                      ELSE Min(amount, Wrap(free + U32Limit) \div space)
    IN  IF overflow /\ overflow_checks
        THEN [res |-> Panic, map |-> map]
        ELSE [res |-> Ok,
              map |-> Entry(map, resource,
                        IF resource \in DOMAIN map
                        THEN u32_saturating_add(map[resource], max_amount)
                        ELSE max_amount)]

\* Removes without comparing the amount with what the map holds.
sub_unchecked(map, resource, amount) ==
    [res |-> Ok,
     map |-> Entry(map, resource,
               IF resource \in DOMAIN map
               THEN u32_saturating_sub(map[resource], amount)
               ELSE 0)]

\* The same, refusing to remove all that the map holds.
sub_all_refused(map, resource, amount) ==
    LET current == value(map, resource)
    IN  IF current <= amount
        THEN [res |-> SubErr, map |-> map]
        ELSE [res |-> Ok,
              map |-> Entry(map, resource,
                        IF resource \in DOMAIN map
                        THEN u32_saturating_sub(map[resource], amount)
                        ELSE 0)]

sub(map, resource, amount) ==
    LET current == value(map, resource)
    IN  IF current < amount
        THEN [res |-> SubErr, map |-> map]
        ELSE [res |-> Ok,
              map |-> Entry(map, resource,
                        IF resource \in DOMAIN map
                        THEN u32_saturating_sub(map[resource], amount)
                        ELSE 0)]

\* The same with the wrapping subtraction of the word.
saturating_sub_wrapping(map, resource, amount) ==
    [res |-> Ok,
     map |-> Entry(map, resource,
               IF resource \in DOMAIN map
               THEN Wrap(map[resource] - amount + U32Limit)
               ELSE 0)]

saturating_sub(map, resource, amount) ==
    [res |-> Ok,
     map |-> Entry(map, resource,
               IF resource \in DOMAIN map
               THEN u32_saturating_sub(map[resource], amount)
               ELSE 0)]

\* (-amount) as u32 for an i32 amount < 0.  Negating I32_MIN overflows: the
\* wrapped result is I32_MIN again, which as u32 is the exact value of -amount.
NegAsU32(amount) == 0 - amount

update(map, resource, amount, max_capacity) ==
    IF amount > 0
    THEN add(map, resource, amount, max_capacity)
    ELSE IF amount < 0
    THEN IF amount = I32_MIN /\ overflow_checks
         THEN [res |-> Panic, map |-> map]
         ELSE sub(map, resource, NegAsU32(amount))
    ELSE [res |-> Ok, map |-> map]

----------------------------------------------------------------------------
(* src/types.rs: impl SystemTimeTick for Tick.                              *)
(* A Tick is a u128 count of milliseconds.  Rust's u64 is modelled by a     *)
(* word of U64Limit values, a scaled-down 2^64; a Tick may exceed it.       *)

U64Limit == 268435456

\* world/constants.rs: the ticks of a second, a minute, an hour and a day.
SECONDS == 1000
MINUTES == 60 * SECONDS
HOURS == 60 * MINUTES
DAYS == 24 * HOURS

\* A SystemTime is kept as the Duration since UNIX_EPOCH that
\* duration_since returns: whole seconds and nanoseconds.
\* Duration::from_millis(ms)
from_millis(ms) == [secs |-> ms \div 1000, nanos |-> (ms % 1000) * 1000000]
\* Duration::as_millis
as_millis(d) == d.secs * 1000 + d.nanos \div 1000000

\* UNIX_EPOCH + Duration::from_millis(*self as u64): the cast keeps the low
\* 64 bits of the tick.
as_system_time(tick) == from_millis(tick % U64Limit)

\* time.duration_since(UNIX_EPOCH).expect(..).as_millis()
from_system_time(time) == as_millis(time)

as_secs(tick) == tick \div SECONDS
as_minutes(tick) == tick \div MINUTES
as_hours(tick) == tick \div HOURS

\* The characters of an unsigned number in base ten, and format!("{:02}").
DigitChars == <<"0", "1", "2", "3", "4", "5", "6", "7", "8", "9">>
RECURSIVE Decimal(_)
Decimal(n) ==
    IF n < 10 THEN <<DigitChars[n + 1]>>
    ELSE Decimal(n \div 10) \o <<DigitChars[(n % 10) + 1]>>
Pad2(n) == IF n < 10 THEN <<"0">> \o Decimal(n) ELSE Decimal(n)

\* (x as f32 / 60.0 / 60.0 / 24.0) as u128 for a number of seconds x.  x and
\* the quotients by 60 and 3600 of a multiple of 86400 are exact in f32
\* below 2^24, and a rounded quotient reaches the next integer only from
\* within 2^-22 of it, while x / 86400 stays 1 / 86400 away: below 64 days
\* the cast yields the whole days.
whole_days(x) == x \div 86400
\* (x as f32 / 60.0 / 60.0 / 24.0 / 365.2425) as u128, likewise: a year is
\* 86400 * 365.2425 = 31556952 seconds.
whole_years(x) == x \div 31556952

\* The same, with the minutes not taken modulo 60.
formatted_minutes_total(tick) ==
    LET seconds == as_secs(tick) % 60
        minutes == as_minutes(tick)
        hours == as_hours(tick) % 24
    IN  Pad2(hours) \o <<":">> \o Pad2(minutes) \o <<":">> \o Pad2(seconds)

\* The text is the sequence of its characters.
formatted(tick) ==
    LET seconds == as_secs(tick) % 60
        minutes == as_minutes(tick) % 60
        hours == as_hours(tick) % 24
        days == whole_days(as_secs(tick)) % 365
        years == whole_years(as_secs(tick))
        time == Pad2(hours) \o <<":">> \o Pad2(minutes) \o <<":">> \o Pad2(seconds)
    IN  IF years > 0
        THEN Decimal(years) \o <<"y", " ">> \o Decimal(days) \o <<"d", " ">> \o time
        ELSE IF days > 0
        THEN Decimal(days) \o <<"d", " ">> \o time
        ELSE time

----------------------------------------------------------------------------
(* The world: teams, players and planets of one process.                   *)

\* Option<T>: an id is a string or None; an optional record is Nothing or
\* Some(x).
None == "None"
Nothing == {}
Some(x) == {x}
Get(o) == CHOOSE x \in o : TRUE

PlanetIds == {"P1", "P2", "P3"}
OWN == "T1"

StorageCapacity == 2
FuelCapacity == 2
InitSatoshi == 1
MaxSatoshi == 2
MaxDurability == 2
MAX_NUM_ASTEROID_PER_TEAM == 1
FuelRateDen == 4
FuelRates == {3, 4}
ExploreDurations == {1, 2}
PORTAL_DURATION == 1

OnPlanet(planet_id) == [type |-> "OnPlanet", planet_id |-> planet_id]
Travelling(from, to, started, duration, distance) ==
    [type |-> "Travelling", from |-> from, to |-> to, started |-> started,
     duration |-> duration, distance |-> distance]
Exploring(around, started, duration) ==
    [type |-> "Exploring", around |-> around, started |-> started, duration |-> duration]
OnSpaceAdventure(around) == [type |-> "OnSpaceAdventure", around |-> around]

\* What an intent returns: the application afterwards and Ok or the error.
Return(a, res) == [app |-> a, res |-> res]

\* Team::storage_capacity, Team::fuel_capacity, Team::fuel,
\* Team::used_storage_capacity, Team::spaceship_fuel_consumption
storage_capacity(team) == StorageCapacity
fuel_capacity(team) == FuelCapacity
fuel(team) == value(team.resources, "FUEL")
team_used_storage_capacity(team) == used_storage_capacity(team.resources)

\* (duration as f32 * spaceship_fuel_consumption()) as u32: the product of the
\* duration and the rate fuel_rate / FuelRateDen, truncated toward zero.
needed_fuel(team, duration) == (duration * team.spaceship.fuel_rate) \div FuelRateDen

\* (duration as f32 * spaceship_fuel_consumption()).max(1.0) as u32
\* The same without the floor of one unit.
fuel_consumed_unclamped(team, duration) == needed_fuel(team, duration)

fuel_consumed(team, duration) == Max(1, needed_fuel(team, duration))

\* World::travel_time_to_planet and World::distance_between_planets
distance_between_planets(from, to) == IF {from, to} = {"P1", "P3"} THEN 2 ELSE 1
travel_time_to_planet(from, to) == distance_between_planets(from, to)

\* Team::can_travel_to_planet and Team::can_explore_around_planet
can_travel_to_planet(team, planet, duration) ==
    IF planet.peer_id # None THEN "Cannot travel to asteroid owned by another team"
    ELSE IF team.current_game # None THEN "Team is currently playing"
    ELSE IF needed_fuel(team, duration) > fuel(team) THEN "Not enough fuel"
    ELSE Ok

can_explore_around_planet(team, planet, duration) ==
    IF planet.peer_id # None THEN "Cannot explore around asteroid owned by another team"
    ELSE IF team.current_game # None THEN "Team is currently playing"
    ELSE IF needed_fuel(team, duration) > fuel(team) THEN "Not enough fuel"
    ELSE Ok

\* Player::set_jersey for every player of the team
SetJerseys(players, player_ids, style) ==
    [p \in DOMAIN players |->
        IF p \in player_ids THEN [players[p] EXCEPT !.jersey = style] ELSE players[p]]

\* The flags written with the values given, set or not.
SetDirty_assigned(w, d, n, u) ==
    [w EXCEPT !.dirty = d, !.dirty_network = n, !.dirty_ui = u]

SetDirty(w, d, n, u) ==
    [w EXCEPT !.dirty = (@ \/ d), !.dirty_network = (@ \/ n), !.dirty_ui = (@ \/ u)]

\* The outcome of a match on the team's location: the planet the team
\* leaves, or the error the match returns with.
Leaves(planet_id) == [res |-> Ok, planet_id |-> planet_id]
Stays(err) == [res |-> err, planet_id |-> None]

\* travel_to_planet's match on own_team.current_location
travel_from(w, loc, planet_id) ==
    IF loc.type = "OnPlanet"
    THEN IF loc.planet_id = planet_id THEN Stays("Already on planet")
         ELSE IF loc.planet_id \notin DOMAIN w.planets THEN Stays("Planet not found")
         ELSE Leaves(loc.planet_id)
    ELSE IF loc.type = "Travelling" THEN Stays("Team is travelling")
    ELSE IF loc.type = "Exploring" THEN Stays("Team is exploring")
    ELSE Stays("Team is on a space adventure")

(* src/ui/ui_callback.rs: UiCallback::travel_to_planet *)
travel_to_planet(a, planet_id) ==
    LET w == a.world IN
    IF w.own_team_id \notin DOMAIN w.teams THEN Return(a, "Own team not found")
    ELSE IF planet_id \notin DOMAIN w.planets THEN Return(a, "Planet not found")
    ELSE
    LET own_team == w.teams[w.own_team_id]
        target_planet == w.planets[planet_id]
        from == travel_from(w, own_team.current_location, planet_id)
    IN
    IF from.res # Ok THEN Return(a, from.res)
    ELSE
    LET loc == OnPlanet(from.planet_id)
        current_planet == w.planets[loc.planet_id]
        duration == travel_time_to_planet(loc.planet_id, planet_id)
        can == can_travel_to_planet(own_team, target_planet, duration)
        distance == distance_between_planets(loc.planet_id, planet_id)
        moved == [own_team EXCEPT !.current_location =
                    Travelling(loc.planet_id, planet_id, now, duration, distance)]
        r == sub(moved.resources, "FUEL", fuel_consumed(moved, duration))
        planets2 == [w.planets EXCEPT ![loc.planet_id].team_ids = @ \ {own_team.id}]
    IN
    IF can # Ok THEN Return(a, can)
    ELSE IF r.res # Ok THEN Return(a, r.res)
    ELSE IF ~(own_team.player_ids \subseteq DOMAIN w.players)
    THEN Return([a EXCEPT !.world.planets = planets2], "Player not found")
    ELSE Return([a EXCEPT !.world =
                    SetDirty([w EXCEPT
                        !.planets = planets2,
                        !.players = SetJerseys(w.players, own_team.player_ids, "Pirate"),
                        !.teams[own_team.id] = [moved EXCEPT !.resources = r.map]],
                      TRUE, TRUE, TRUE)],
                Ok)

\* A second exploration starts from the planet the team is exploring around.
explore_from_while_exploring(loc) ==
    IF loc.type = "OnPlanet" THEN Leaves(loc.planet_id)
    ELSE IF loc.type = "Travelling" THEN Stays("Team is travelling")
    ELSE IF loc.type = "Exploring" THEN Leaves(loc.around)
    ELSE Stays("Team is on a space adventure")

\* explore_around_planet's match on own_team.current_location
explore_from(loc) ==
    IF loc.type = "OnPlanet" THEN Leaves(loc.planet_id)
    ELSE IF loc.type = "Travelling" THEN Stays("Team is travelling")
    ELSE IF loc.type = "Exploring" THEN Stays("Team is already exploring")
    ELSE Stays("Team is on a space adventure")

(* src/ui/ui_callback.rs: UiCallback::explore_around_planet *)
explore_around_planet(a, duration) ==
    LET w == a.world IN
    IF w.own_team_id \notin DOMAIN w.teams THEN Return(a, "Own team not found")
    ELSE
    LET own_team == w.teams[w.own_team_id]
        from == explore_from(own_team.current_location)
    IN
    IF from.res # Ok THEN Return(a, from.res)
    ELSE IF from.planet_id \notin DOMAIN w.planets THEN Return(a, "Planet not found")
    ELSE
    LET loc == OnPlanet(from.planet_id)
        around_planet == w.planets[loc.planet_id]
        can == can_explore_around_planet(own_team, around_planet, duration)
        moved == [own_team EXCEPT !.current_location =
                    Exploring(loc.planet_id, now, duration)]
        r == sub(moved.resources, "FUEL", fuel_consumed(moved, duration))
        planets2 == [w.planets EXCEPT ![loc.planet_id].team_ids = @ \ {own_team.id}]
    IN
    IF can # Ok THEN Return(a, can)
    ELSE IF r.res # Ok THEN Return(a, r.res)
    ELSE IF ~(own_team.player_ids \subseteq DOMAIN w.players)
    THEN Return([a EXCEPT !.world.planets = planets2], "Player not found")
    ELSE Return([a EXCEPT !.world =
                    SetDirty([w EXCEPT
                        !.planets = planets2,
                        !.players = SetJerseys(w.players, own_team.player_ids, "Pirate"),
                        !.teams[own_team.id] = [moved EXCEPT !.resources = r.map]],
                      TRUE, TRUE, TRUE)],
                Ok)

(* src/ui/ui_callback.rs: UiCallback::trade_resource *)
trade_resource(a, resource, amount, unit_cost) ==
    LET w == a.world IN
    IF w.own_team_id \notin DOMAIN w.teams THEN Return(a, "Own team not found")
    ELSE
    LET own_team == w.teams[w.own_team_id]
        max_capacity == IF resource = "FUEL" THEN fuel_capacity(own_team)
                        ELSE storage_capacity(own_team)
        \* unit_cost * amount as u32: aborts on overflow with overflow checks,
        \* wraps without
        cost_exact == unit_cost * (IF amount > 0 THEN amount ELSE NegAsU32(amount))
        cost_panics == cost_exact > U32_MAX /\ overflow_checks
        cost == Wrap(cost_exact)
        bought == add(own_team.resources, resource, amount, max_capacity)
        paid == sub(bought.map, "SATOSHI", cost)
        sold == sub(own_team.resources, resource, NegAsU32(amount))
        cashed == add(sold.map, "SATOSHI", cost, storage_capacity(own_team))
        done(map) == Return([a EXCEPT !.world =
                                SetDirty([w EXCEPT !.teams[own_team.id].resources = map],
                                         TRUE, FALSE, TRUE)], Ok)
    IN
    IF amount > 0
    THEN IF bought.res # Ok THEN Return(a, bought.res)
         ELSE IF cost_panics THEN Return(a, Panic)
         ELSE IF paid.res # Ok THEN Return(a, paid.res)
         ELSE done(paid.map)
    ELSE IF amount < 0
    THEN IF amount = I32_MIN /\ overflow_checks THEN Return(a, Panic)
         ELSE IF sold.res # Ok THEN Return(a, sold.res)
         ELSE IF cost_panics THEN Return(a, Panic)
         ELSE IF cashed.res # Ok THEN Return(a, cashed.res)
         ELSE done(cashed.map)
    ELSE done(own_team.resources)

\* World::generate_team_asteroid: a new planet with no population, a
\* satellite of the planet the team is on.
NewAsteroid ==
    [team_ids |-> {}, total_population |-> 0, peer_id |-> None]

(* src/ui/ui_callback.rs: UiCallback::name_and_accept_asteroid.            *)
(* asteroid_id is the id generate_team_asteroid gives the new planet.      *)
name_and_accept_asteroid(a, asteroid_id) ==
    LET w == a.world IN
    IF w.own_team_id \notin DOMAIN w.teams THEN Return(a, "Own team not found")
    ELSE
    LET team == w.teams[w.own_team_id]
        loc == team.current_location
        generated == [k \in (DOMAIN w.planets) \cup {asteroid_id} |->
                        IF k = asteroid_id THEN NewAsteroid ELSE w.planets[k]]
        asteroid == [generated[asteroid_id] EXCEPT !.team_ids = @ \cup {team.id}]
        team2 == [team EXCEPT !.current_location = OnPlanet(asteroid_id),
                              !.asteroid_ids = @ \cup {asteroid_id}]
    IN
    IF Cardinality(team.asteroid_ids) > MAX_NUM_ASTEROID_PER_TEAM
    THEN Return(a, "Team has reached max number of asteroids.")
    ELSE IF loc.type # "OnPlanet"
    THEN Return(a, "Invalid team location when accepting asteroid.")
    ELSE Return([a EXCEPT
                    !.world = SetDirty([w EXCEPT
                                  !.planets = [generated EXCEPT ![asteroid_id] = asteroid],
                                  !.teams[team.id] = team2],
                                TRUE, TRUE, TRUE)],
                Ok)

\* SpaceshipUpgrade: the targets and SpaceshipUpgrade::cost
Upgrades == {[target |-> "Hull", component |-> 1], [target |-> "Repairs", component |-> 0]}
NoCost == [k \in {} |-> 0]
upgrade_cost(upgrade) ==
    IF upgrade.target = "Hull"
    THEN [k \in {"SATOSHI", "GOLD"} |-> 1]
    ELSE [k \in {"SATOSHI"} |-> 1]

\* Team::can_set_upgrade_spaceship
can_set_upgrade_spaceship(team, upgrade) ==
    IF team.spaceship.pending_upgrade # Nothing THEN "Upgrading spaceship"
    ELSE IF team.current_location.type # "OnPlanet" THEN "Can only upgrade on a planet"
    ELSE Ok

\* for (resource, amount) in &upgrade.cost() { team.resources.sub(..)? }
SubAll(map, cost) ==
    LET short == {k \in DOMAIN cost : value(map, k) < cost[k]}
    IN  IF short # {} THEN [res |-> SubErr, map |-> map]
        ELSE [res |-> Ok,
              map |-> [k \in (DOMAIN map) \cup (DOMAIN cost) |->
                         IF k \in DOMAIN cost THEN sub(map, k, cost[k]).map[k] ELSE map[k]]]

\* The same on the world's team itself rather than on a clone of it: the
\* SATOSHI of the cost is removed before another kind is found short.
set_upgrade_spaceship_in_place(a, upgrade) ==
    LET w == a.world IN
    IF w.own_team_id \notin DOMAIN w.teams THEN Return(a, "Own team not found")
    ELSE
    LET team == w.teams[w.own_team_id]
        can == can_set_upgrade_spaceship(team, upgrade)
        cost == upgrade_cost(upgrade)
        r == SubAll(team.resources, cost)
        first == sub(team.resources, "SATOSHI", value(cost, "SATOSHI"))
    IN
    IF can # Ok THEN Return(a, can)
    ELSE IF r.res # Ok
    THEN Return([a EXCEPT !.world.teams[team.id].resources = first.map], r.res)
    ELSE Return([a EXCEPT !.world =
                    SetDirty([w EXCEPT !.teams[team.id] =
                                [team EXCEPT !.resources = r.map,
                                             !.spaceship.pending_upgrade = Some(upgrade)]],
                             TRUE, TRUE, TRUE)],
                Ok)

(* src/ui/ui_callback.rs: UiCallback::set_upgrade_spaceship *)
set_upgrade_spaceship(a, upgrade) ==
    LET w == a.world IN
    IF w.own_team_id \notin DOMAIN w.teams THEN Return(a, "Own team not found")
    ELSE
    LET team == w.teams[w.own_team_id]
        can == can_set_upgrade_spaceship(team, upgrade)
        r == SubAll(team.resources, upgrade_cost(upgrade))
    IN
    IF can # Ok THEN Return(a, can)
    ELSE IF r.res # Ok THEN Return(a, r.res)
    ELSE Return([a EXCEPT !.world =
                    SetDirty([w EXCEPT !.teams[team.id] =
                                [team EXCEPT !.resources = r.map,
                                             !.spaceship.pending_upgrade = Some(upgrade)]],
                             TRUE, TRUE, TRUE)],
                Ok)

(* src/ui/ui_callback.rs: UiCallback::upgrade_spaceship *)
upgrade_spaceship(a, upgrade) ==
    LET w == a.world IN
    IF w.own_team_id \notin DOMAIN w.teams THEN Return(a, "Own team not found")
    ELSE
    LET team == w.teams[w.own_team_id]
        ship == [team.spaceship EXCEPT
                    !.hull = IF upgrade.target = "Hull" THEN upgrade.component ELSE @,
                    !.current_durability = MaxDurability,
                    !.pending_upgrade = Nothing]
    IN  Return([a EXCEPT
                  !.world = SetDirty([w EXCEPT !.teams[team.id].spaceship = ship],
                                     TRUE, TRUE, TRUE)],
               Ok)

(* src/ui/ui_callback.rs: UiCallback::sync *)
sync(a) == Return([a EXCEPT !.world.dirty_network = TRUE], Ok)

\* Player::can_drink
can_drink(player, w) ==
    IF player.team = None THEN "Player has no team"
    ELSE IF player.team \notin DOMAIN w.teams THEN "Team not found"
    ELSE IF value(w.teams[player.team].resources, "RUM") = 0 THEN "No rum to drink"
    ELSE IF player.tiredness >= MaxQuantity THEN "No energy to drink"
    ELSE Ok

\* The same without the test on the destination the team was heading to.
PortalTargets_off_origin(w, loc) ==
    IF loc.type = "Travelling"
    THEN {id \in DOMAIN w.planets :
            id # loc.from
            /\ w.planets[id].total_population > 0 /\ w.planets[id].peer_id = None}
    ELSE IF loc.type = "Exploring"
    THEN {id \in DOMAIN w.planets :
            id # loc.around
            /\ w.planets[id].total_population > 0 /\ w.planets[id].peer_id = None}
    ELSE {}

\* The planets a portal can lead to (ui_callback.rs, 1232-1258).
PortalTargets(w, loc) ==
    IF loc.type = "Travelling"
    THEN {id \in DOMAIN w.planets :
            id # loc.from /\ id # loc.to
            /\ w.planets[id].total_population > 0 /\ w.planets[id].peer_id = None}
    ELSE IF loc.type = "Exploring"
    THEN {id \in DOMAIN w.planets :
            id # loc.around
            /\ w.planets[id].total_population > 0 /\ w.planets[id].peer_id = None}
    ELSE {}

(* src/ui/ui_callback.rs: UiCallback::Drink.  portal is the outcome of      *)
(* gen_bool and to the planet choose(rng) picks.                           *)
Drink(a, player_id, portal, to) ==
    LET w == a.world IN
    IF player_id \notin DOMAIN w.players THEN Return(a, "Player not found")
    ELSE
    LET player == w.players[player_id]
        can == can_drink(player, w)
    IN
    IF can # Ok THEN Return(a, can)
    ELSE
    LET spugna == player.special_trait = "Spugna"
        drunk == [player EXCEPT
                    !.morale = IF spugna THEN MaxQuantity ELSE Min(@ + 1, MaxQuantity),
                    !.tiredness = Min(@ + 1, MaxQuantity)]
        team == w.teams[player.team]
        r == sub(team.resources, "RUM", 1)
        loc == team.current_location
        found == spugna /\ player.crew_role = "Pilot" /\ portal
                 /\ to \in PortalTargets(w, loc)
        from == IF loc.type = "Travelling" THEN loc.from ELSE loc.around
        team2 == [team EXCEPT
                    !.resources = r.map,
                    !.current_location =
                        IF found
                        THEN Travelling(from, to, now, PORTAL_DURATION,
                                        distance_between_planets(from, to))
                        ELSE @]
    IN
    IF r.res # Ok THEN Return(a, r.res)
    ELSE Return([a EXCEPT
                    !.world = SetDirty([w EXCEPT !.players[player_id] = drunk,
                                                 !.teams[team.id] = team2],
                                       TRUE, TRUE, TRUE)],
                Ok)

\* Team::can_start_space_adventure
can_start_space_adventure(team) ==
    IF team.current_game # None THEN "Team is currently playing"
    ELSE IF team.spaceship.pending_upgrade # Nothing THEN "Spaceship is being upgraded"
    ELSE Ok

\* SpaceAdventure::new()?.with_spaceship(spaceship, resources, fuel): the
\* adventure runs outside this model; only whether it was asked to stop is
\* kept.
NewSpaceAdventure(team) == [stopped |-> FALSE]

(* src/ui/ui_callback.rs: UiCallback::StartSpaceAdventure *)
StartSpaceAdventure(a) ==
    LET a1 == [a EXCEPT !.ui.state = "SpaceAdventure"]
        w == a.world
    IN
    IF w.own_team_id \notin DOMAIN w.teams THEN Return(a1, "Own team not found")
    ELSE
    LET own_team == w.teams[w.own_team_id]
        can == can_start_space_adventure(own_team)
        loc == own_team.current_location
    IN
    IF can # Ok THEN Return(a1, can)
    ELSE IF loc.type # "OnPlanet"
    THEN Return(a1, "Team should be on a planet to start a space adventure.")
    ELSE Return([a1 EXCEPT
                    !.world.teams[own_team.id].current_location =
                        OnSpaceAdventure(loc.planet_id),
                    !.world.space_adventure = Some(NewSpaceAdventure(own_team))],
                Ok)

(* src/ui/ui_callback.rs: UiCallback::StopSpaceAdventure *)
StopSpaceAdventure(a) ==
    IF a.world.space_adventure # Nothing
    THEN Return([a EXCEPT !.world.space_adventure =
                    Some([Get(@) EXCEPT !.stopped = TRUE])], Ok)
    ELSE Return(a, Ok)

\* What the adventure's player entity holds when the team returns: the
\* PlayerControlled view of the ship (space_screen.rs, 81-128), which started
\* from the team's resources and fuel.
\*   player: get_player() is Some; durability: the maximum durability;
\*   current_durability; resources; fuel.
Harvests(team) ==
    { h \in { [player |-> p, durability |-> MaxDurability, current_durability |-> cd,
               resources |-> m, fuel |-> f] :
                p \in BOOLEAN, cd \in {0, MaxDurability},
                f \in {Min(fuel(team), fuel_capacity(team))},
                m \in { team.resources, Entry(team.resources, "GOLD", 1) } } :
        UsedExact(h.resources) <= storage_capacity(team) }

(* src/ui/ui_callback.rs: UiCallback::ReturnFromSpaceAdventure *)
ReturnFromSpaceAdventure(a, h) ==
    LET a1 == [a EXCEPT !.ui.state = "Main"]
        w == a.world
    IN
    IF w.own_team_id \notin DOMAIN w.teams THEN Return(a1, "Own team not found")
    ELSE IF w.space_adventure = Nothing
    THEN Return(a1, Ok)
    ELSE IF ~h.player
    THEN Return([a1 EXCEPT !.world.space_adventure = Nothing], Ok)
    ELSE
    LET own_team == w.teams[w.own_team_id]
        loc == own_team.current_location
        new_resources == IF h.durability > 0
                         THEN Entry(h.resources, "FUEL", h.fuel)
                         ELSE [k \in {} |-> 0]
        team2 == [own_team EXCEPT
                    !.resources = new_resources,
                    !.spaceship.current_durability = h.current_durability,
                    !.current_location = OnPlanet(loc.around)]
    IN
    IF loc.type # "OnSpaceAdventure"
    THEN Return(a1, "Team should be on a space adventure.")
    ELSE Return([a1 EXCEPT !.world.teams[own_team.id] = team2,
                           !.world.space_adventure = Nothing],
                Ok)

\* The same, landing as soon as the deadline is reached.
has_arrived_at_deadline(w, loc) ==
    w.last_tick_short_interval >= loc.started + loc.duration

\* ui_callback.rs, 1272: "the team will arrive when
\* world.last_tick_short_interval > started + duration".
has_arrived(w, loc) ==
    w.last_tick_short_interval > loc.started + loc.duration

\* World::tick_travel for one team: a Travelling or Exploring team that has
\* arrived lands.  loot is what the exploration found.
tick_travel(w, team_id, loot) ==
    LET team == w.teams[team_id]
        loc == team.current_location
        landed(planet_id, map) ==
            [w EXCEPT
                !.teams[team_id].current_location = OnPlanet(planet_id),
                !.teams[team_id].resources = map,
                !.planets[planet_id].team_ids = @ \cup {team_id},
                !.players = SetJerseys(w.players, team.player_ids, "Team"),
                !.dirty = TRUE, !.dirty_network = TRUE, !.dirty_ui = TRUE]
    IN
    IF loc.type = "Travelling" /\ has_arrived(w, loc)
    THEN landed(loc.to, team.resources)
    ELSE IF loc.type = "Exploring" /\ has_arrived(w, loc)
    THEN landed(loc.around,
                IF loot = None THEN team.resources
                ELSE saturating_add(team.resources, loot, 1, storage_capacity(team)).map)
    ELSE w

\* World::handle_tick_events: one pass of the tick engine at current_tick.
handle_tick_events(a, current_tick, loot) ==
    LET w1 == [a.world EXCEPT !.last_tick_short_interval = current_tick]
    IN  IF w1.own_team_id \in DOMAIN w1.teams
        THEN [a EXCEPT !.world = tick_travel(w1, w1.own_team_id, loot)]
        ELSE [a EXCEPT !.world = w1]

----------------------------------------------------------------------------
(* src/ui/my_team_panel.rs, src/ui/widgets.rs: the time left that is shown *)
(* for a team in flight.                                                   *)

\* The same without the comparison: the subtraction as it stands.
countdown_unguarded(started, duration, last_tick_short_interval) ==
    started + duration - last_tick_short_interval

countdown(started, duration, last_tick_short_interval) ==
    IF started + duration > last_tick_short_interval
    THEN started + duration - last_tick_short_interval
    ELSE 0

----------------------------------------------------------------------------
(* src/ui/widgets.rs: get_storage_lengths, the bars of the storage gauge.  *)
(* usize is the u64 word.                                                  *)

Bars == <<"GOLD", "SCRAPS", "RUM">>

\* ((x as f32 / storage_capacity as f32) * bars_length as f32).round() as
\* usize.  The quotient x * bars_length / storage_capacity is a multiple of
\* 1 / storage_capacity, so the rounding errors of f32 change the result only
\* where it is exactly half-way between two integers: tie_up is what f32
\* yields there.  A division by 0 gives NaN or infinity, which the cast
\* turns into 0 or usize::MAX.
bar_round(x, capacity, bars_length, tie_up) ==
    IF capacity = 0
    THEN IF x = 0 \/ bars_length = 0 THEN 0 ELSE U64Limit - 1
    ELSE LET whole == (x * bars_length) \div capacity
             rest == 2 * ((x * bars_length) % capacity)
         IN  IF rest > capacity \/ (rest = capacity /\ tie_up)
             THEN whole + 1
             ELSE whole

\* ties: for each bar, what f32 yields at an exact half.
get_storage_lengths(map, capacity, bars_length, ties) ==
    LET length(k) ==
            LET tentative == bar_round(to_storing_space(k) * value(map, k),
                                       capacity, bars_length, ties[k])
            IN  IF value(map, k) > 0 THEN Max(tentative, 1) ELSE tentative
        gold_length == length("GOLD")
        scraps_length == length("SCRAPS")
        rum_length == length("RUM")
        product_overflows ==
            \E k \in {"GOLD", "SCRAPS", "RUM"} :
                to_storing_space(k) * value(map, k) > U32_MAX
        free_bars == bars_length - (gold_length + scraps_length + rum_length)
        \* free_bars < 0: the largest length gives the bars back
        largest == IF gold_length > scraps_length /\ gold_length > rum_length THEN "GOLD"
                   ELSE IF rum_length > scraps_length THEN "RUM"
                   ELSE "SCRAPS"
        underflows == length(largest) + free_bars < 0
        \* free_bars > 0: a full storage shows no free bar
        free_space == capacity - used_storage_capacity(map)
        space_underflows == UsedOverflows(map) \/ free_space < 0
        fullest == IF gold_length >= scraps_length /\ gold_length >= rum_length
                   THEN "GOLD"
                   ELSE IF rum_length >= scraps_length THEN "RUM"
                   ELSE "SCRAPS"
        lengths(changed, by, free) ==
            [i \in 1 .. 4 |->
                IF i = 4 THEN free
                ELSE IF Bars[i] = changed
                THEN (length(Bars[i]) + by + U64Limit) % U64Limit
                ELSE length(Bars[i])]
    IN  IF product_overflows /\ overflow_checks
        THEN [res |-> Panic, lengths |-> <<>>]
        ELSE IF free_bars < 0
        THEN IF underflows /\ overflow_checks
             THEN [res |-> Panic, lengths |-> <<>>]
             ELSE [res |-> Ok, lengths |-> lengths(largest, free_bars, 0)]
        ELSE IF free_bars > 0
        THEN IF space_underflows /\ overflow_checks
             THEN [res |-> Panic, lengths |-> <<>>]
             ELSE IF free_space = 0
             THEN [res |-> Ok, lengths |-> lengths(fullest, free_bars, 0)]
             ELSE [res |-> Ok, lengths |-> lengths(None, 0, free_bars)]
        ELSE [res |-> Ok, lengths |-> lengths(None, 0, 0)]

----------------------------------------------------------------------------
(* Trades of players.  Team::can_trade_players, the Team registries,       *)
(* World::swap_players_team and the network handler are not part of the    *)
(* sources at hand: they follow the specification of the trade protocol.   *)

\* What an intent or a network message leaves: the process, the result, the
\* text shown to the user and the messages sent.
Reply(a, res, text, out) == [app |-> a, res |-> res, text |-> text, out |-> out]

\* A Trade names the two players and the teams they were in when proposed.
NewTrade(w, proposer_player_id, target_player_id) ==
    [proposer_player_id |-> proposer_player_id,
     target_player_id |-> target_player_id,
     proposer_team_id |-> w.players[proposer_player_id].team,
     target_team_id |-> w.players[target_player_id].team]

\* The key of sent_trades and received_trades
TradeKey(trade) == <<trade.proposer_player_id, trade.target_player_id>>

Keys(trades) == {TradeKey(t) : t \in trades}

Message(to, state, trade) == [to |-> to, state |-> state, trade |-> trade]

\* Team::can_trade_players: both players are in the rosters of the two
\* teams, the teams differ and neither is playing.
can_trade_players(team, proposer_player_id, target_player_id, target_team) ==
    IF team.id = target_team.id THEN "Cannot trade with own team"
    ELSE IF proposer_player_id \notin team.player_ids
    THEN "Proposer player is not in the proposer team"
    ELSE IF target_player_id \notin target_team.player_ids
    THEN "Target player is not in the target team"
    ELSE IF team.current_game # None \/ target_team.current_game # None
    THEN "Team is currently playing"
    ELSE Ok

\* HashMap::insert under the trade's key
InsertTrade(trades, trade) ==
    {t \in trades : TradeKey(t) # TradeKey(trade)} \cup {trade}

\* Team::add_sent_trade, Team::add_received_trade, Team::remove_trade
add_sent_trade(team, trade) ==
    [team EXCEPT !.sent_trades = InsertTrade(@, trade)]

add_received_trade(team, trade) ==
    [team EXCEPT !.received_trades = InsertTrade(@, trade)]

remove_trade(team, proposer_player_id, target_player_id) ==
    [team EXCEPT
        !.sent_trades = {t \in @ : TradeKey(t) # <<proposer_player_id, target_player_id>>},
        !.received_trades = {t \in @ : TradeKey(t) # <<proposer_player_id, target_player_id>>}]

\* World::swap_players_team: each player joins the team the other was in.
swap_players_team(w, proposer_player_id, target_player_id) ==
    LET t1 == w.players[proposer_player_id].team
        t2 == w.players[target_player_id].team
        roster(t) ==
            IF t = t1 /\ t = t2 THEN w.teams[t].player_ids
            ELSE IF t = t1
            THEN (w.teams[t].player_ids \ {proposer_player_id}) \cup {target_player_id}
            ELSE IF t = t2
            THEN (w.teams[t].player_ids \ {target_player_id}) \cup {proposer_player_id}
            ELSE w.teams[t].player_ids
    IN  [w EXCEPT
            !.players[proposer_player_id].team = t2,
            !.players[target_player_id].team = t1,
            !.teams = [t \in DOMAIN w.teams |-> [w.teams[t] EXCEPT !.player_ids = roster(t)]],
            !.dirty = TRUE, !.dirty_network = TRUE, !.dirty_ui = TRUE]

\* The same, recording the trade whether or not it was sent.
propose_to_peer_unsent(a, peer_id, proposer_player_id, target_player_id, sent) ==
    LET w == a.world
        trade == NewTrade(w, proposer_player_id, target_player_id)
    IN  Reply([a EXCEPT !.world.teams[w.own_team_id] = add_sent_trade(@, trade)],
              Ok, "Trade offer sent",
              IF sent THEN {Message(peer_id, "Syn", trade)} ELSE {})

\* trade_players, the target team has a peer id: send_new_trade, then
\* add_sent_trade.  sent: the network layer sent the proposal.
propose_to_peer(a, peer_id, proposer_player_id, target_player_id, sent) ==
    LET w == a.world
        trade == NewTrade(w, proposer_player_id, target_player_id)
    IN  IF ~a.network_handler
        THEN Reply(a, "Network handler is not initialized", None, {})
        ELSE IF ~sent THEN Reply(a, "Cannot send trade", None, {})
        ELSE Reply([a EXCEPT !.world.teams[w.own_team_id] = add_sent_trade(@, trade)],
                   Ok, "Trade offer sent", {Message(peer_id, "Syn", trade)})

\* The same with a strict comparison of the two values.
resolve_local_trade_strict(a, proposer_player_id, target_player_id) ==
    LET w == a.world IN
    IF w.players[proposer_player_id].bare_value > w.players[target_player_id].bare_value
    THEN Reply([a EXCEPT !.world =
                    swap_players_team(w, proposer_player_id, target_player_id)],
               Ok, "Trade accepted", {})
    ELSE Reply(a, Ok, "Trade Rejected", {})

\* trade_players, the target team has no peer id: the proposal is settled
\* at once by the values of the two players.
resolve_local_trade(a, proposer_player_id, target_player_id) ==
    LET w == a.world IN
    IF w.players[proposer_player_id].bare_value >= w.players[target_player_id].bare_value
    THEN Reply([a EXCEPT !.world =
                    swap_players_team(w, proposer_player_id, target_player_id)],
               Ok, "Trade accepted", {})
    ELSE Reply(a, Ok, "Trade Rejected", {})

(* src/ui/ui_callback.rs: UiCallback::trade_players *)
trade_players(a, proposer_player_id, target_player_id, sent) ==
    LET w == a.world IN
    IF w.own_team_id \notin DOMAIN w.teams THEN Reply(a, "Own team not found", None, {})
    ELSE IF target_player_id \notin DOMAIN w.players
    THEN Reply(a, "Player not found", None, {})
    ELSE IF w.players[target_player_id].team = None
    THEN Reply(a, "Target player has no team", None, {})
    ELSE IF w.players[target_player_id].team \notin DOMAIN w.teams
    THEN Reply(a, "Team not found", None, {})
    ELSE IF proposer_player_id \notin DOMAIN w.players
    THEN Reply(a, "Player not found", None, {})
    ELSE
    LET own_team == w.teams[w.own_team_id]
        target_player == w.players[target_player_id]
        target_team == w.teams[target_player.team]
        can == can_trade_players(own_team, proposer_player_id, target_player_id, target_team)
    IN
    IF can # Ok THEN Reply(a, can, None, {})
    ELSE IF target_team.peer_id # None
    THEN propose_to_peer(a, target_team.peer_id, proposer_player_id, target_player_id, sent)
    ELSE resolve_local_trade(a, proposer_player_id, target_player_id)

\* NetworkHandler::accept_trade: the precondition is checked again on the
\* world as it is now, and the acceptance is sent to the proposer.
accept_trade(w, trade) ==
    IF trade.proposer_team_id \notin DOMAIN w.teams
    THEN [res |-> "Team not found", out |-> {}]
    ELSE
    LET proposer_team == w.teams[trade.proposer_team_id]
        own_team == w.teams[w.own_team_id]
        can == can_trade_players(proposer_team, trade.proposer_player_id,
                                 trade.target_player_id, own_team)
    IN  IF can # Ok THEN [res |-> can, out |-> {}]
        ELSE [res |-> Ok, out |-> {Message(proposer_team.peer_id, "SynAck", trade)}]

\* NetworkHandler::decline_trade: the refusal is sent to the proposer.
decline_trade(w, trade) ==
    IF trade.proposer_team_id \notin DOMAIN w.teams
    THEN [res |-> "Team not found", out |-> {}]
    ELSE [res |-> Ok,
          out |-> {Message(w.teams[trade.proposer_team_id].peer_id, "Failed", trade)}]

\* The same, going on whatever accept_trade returns.
AcceptTrade_unchecked(a, trade) ==
    LET sent == accept_trade(a.world, trade)
    IN  Reply([a EXCEPT !.world.teams[a.world.own_team_id] =
                  remove_trade(@, trade.proposer_player_id, trade.target_player_id)],
              Ok, None, sent.out)

(* src/ui/ui_callback.rs: UiCallback::AcceptTrade *)
AcceptTrade(a, trade) ==
    IF ~a.network_handler THEN Reply(a, "Network handler is not initialized", None, {})
    ELSE
    LET sent == accept_trade(a.world, trade)
    IN  IF sent.res # Ok THEN Reply(a, sent.res, None, {})
        ELSE IF a.world.own_team_id \notin DOMAIN a.world.teams
        THEN Reply(a, "Own team not found", None, sent.out)
        ELSE Reply([a EXCEPT !.world.teams[a.world.own_team_id] =
                      remove_trade(@, trade.proposer_player_id, trade.target_player_id)],
                   Ok, None, sent.out)

\* The same, leaving the trade in the registry.
DeclineTrade_kept(a, trade) ==
    LET sent == decline_trade(a.world, trade)
    IN  Reply(a, sent.res, None, sent.out)

(* src/ui/ui_callback.rs: UiCallback::DeclineTrade *)
DeclineTrade(a, trade) ==
    IF ~a.network_handler THEN Reply(a, "Network handler is not initialized", None, {})
    ELSE
    LET sent == decline_trade(a.world, trade)
    IN  IF sent.res # Ok THEN Reply(a, sent.res, None, {})
        ELSE IF a.world.own_team_id \notin DOMAIN a.world.teams
        THEN Reply(a, "Own team not found", None, sent.out)
        ELSE Reply([a EXCEPT !.world.teams[a.world.own_team_id] =
                      remove_trade(@, trade.proposer_player_id, trade.target_player_id)],
                   Ok, None, sent.out)

\* The network handler on a trade message from a peer.
\*   Syn: the proposal is registered in received_trades.
\*   SynAck: the target accepted; the proposer swaps the players, forgets
\*           the proposal and acknowledges.
\*   Ack: the proposer swapped; the target swaps too.
\*   Failed: the target declined; the proposer forgets the proposal.
handle_trade_topic(a, m) ==
    LET w == a.world
        trade == m.trade
        own == w.own_team_id
        forgotten == [w EXCEPT !.teams[own] =
                        remove_trade(@, trade.proposer_player_id, trade.target_player_id)]
    IN
    IF m.state = "Syn"
    THEN Reply([a EXCEPT !.world.teams[own] = add_received_trade(@, trade),
                         !.world.dirty_ui = TRUE],
               Ok, None, {})
    ELSE IF m.state = "SynAck"
    THEN Reply([a EXCEPT !.world =
                    swap_players_team(forgotten, trade.proposer_player_id,
                                      trade.target_player_id)],
               Ok, None,
               {Message(w.teams[trade.target_team_id].peer_id, "Ack", trade)})
    ELSE IF m.state = "Ack"
    THEN Reply([a EXCEPT !.world =
                    swap_players_team(w, trade.proposer_player_id,
                                      trade.target_player_id)],
               Ok, None, {})
    ELSE Reply([a EXCEPT !.world = forgotten], Ok, None, {})

----------------------------------------------------------------------------
(* SpecLedger: one call of a ledger operation on a ledger drawn from a      *)
(* bounded set.                                                            *)

NoCall == [op |-> "none"]

\* The least amount of the heaviest kind whose storing space overflows a u32.
LargeAmount == (U32Limit \div 10) + 1

LedgerAmounts == {0, 1, MaxQuantity, LargeAmount, U32_MAX}
LedgerSignedAmounts == {I32_MIN, 0 - MaxQuantity, -1, 0, 1, MaxQuantity, I32_MAX}
LedgerCapacities == {0, 5, 10 * MaxQuantity, U32_MAX}

\* The quantities a kind starts with; Absent: the map has no entry for it.
Absent == 0 - 1
LedgerValues(k) ==
    IF k = "SATOSHI" THEN {Absent, 1}
    ELSE IF k = "FUEL" THEN {Absent, U32_MAX}
    ELSE IF k = "GOLD" THEN {Absent, 0, MaxQuantity}
    ELSE IF k = "SCRAPS" THEN {Absent, 1, LargeAmount}
    ELSE {Absent, 1, MaxQuantity}

InitLedgers ==
    { [k \in {x \in Resource : f[x] # Absent} |-> f[k]] :
        f \in { g \in [Resource -> {Absent, 0, 1, MaxQuantity, LargeAmount, U32_MAX}] :
                    \A k \in Resource : g[k] \in LedgerValues(k) } }

\* One call on the ledger: the ledger becomes what the call leaves and the
\* call is recorded with the ledger it was made on.
LedgerCall(op, resource, amount, max_capacity, r) ==
    /\ ledger_call = NoCall
    /\ resources' = r.map
    /\ ledger_call' = [op |-> op, resource |-> resource, amount |-> amount,
                       max_capacity |-> max_capacity, before |-> resources,
                       res |-> r.res]
    /\ UNCHANGED <<overflow_checks, world_vars>>

Add ==
    \E resource \in Resource, amount \in LedgerAmounts, max_capacity \in LedgerCapacities :
        LedgerCall("add", resource, amount, max_capacity,
                   add(resources, resource, amount, max_capacity))

SaturatingAdd ==
    \E resource \in Resource, amount \in LedgerAmounts, max_capacity \in LedgerCapacities :
        LedgerCall("saturating_add", resource, amount, max_capacity,
                   saturating_add(resources, resource, amount, max_capacity))

Sub ==
    \E resource \in Resource, amount \in LedgerAmounts :
        LedgerCall("sub", resource, amount, 0, sub(resources, resource, amount))

SaturatingSub ==
    \E resource \in Resource, amount \in LedgerAmounts :
        LedgerCall("saturating_sub", resource, amount, 0,
                   saturating_sub(resources, resource, amount))

Update ==
    \E resource \in Resource, amount \in LedgerSignedAmounts,
       max_capacity \in LedgerCapacities :
        LedgerCall("update", resource, amount, max_capacity,
                   update(resources, resource, amount, max_capacity))

NextLedger ==
    \/ Add
    \/ SaturatingAdd
    \/ Sub
    \/ SaturatingSub
    \/ Update

----------------------------------------------------------------------------
(* Initial states *)

AllAsteroids == <<"A1", "A2", "A3", "A4", "A5">>
AsteroidIds == {AllAsteroids[i] : i \in 1 .. (MAX_NUM_ASTEROID_PER_TEAM + 2)}

NewTeam(id, planet_id, player_ids, peer_id, map, rate) ==
    [id |-> id, current_location |-> OnPlanet(planet_id), resources |-> map,
     player_ids |-> player_ids, peer_id |-> peer_id, current_game |-> None,
     sent_trades |-> {}, received_trades |-> {}, asteroid_ids |-> {},
     spaceship |-> [hull |-> 0, pending_upgrade |-> Nothing,
                    current_durability |-> MaxDurability, fuel_rate |-> rate]]

NewPlayer(team, trait, role, bare_value) ==
    [team |-> team, jersey |-> "Team", special_trait |-> trait, crew_role |-> role,
     morale |-> 0, tiredness |-> 0, bare_value |-> bare_value]

NewPlanet(team_ids, population) ==
    [team_ids |-> team_ids, total_population |-> population, peer_id |-> None]

NewApp(own_team_id, teams, players, planets, handler) ==
    [world |-> [own_team_id |-> own_team_id, teams |-> teams, players |-> players,
                planets |-> planets, dirty |-> FALSE, dirty_ui |-> FALSE,
                dirty_network |-> FALSE, space_adventure |-> Nothing,
                last_tick_short_interval |-> 0],
     ui |-> [state |-> "Main"],
     network_handler |-> handler]

InitResources == [k \in {"SATOSHI", "FUEL", "RUM"} |->
                    IF k = "SATOSHI" THEN InitSatoshi ELSE IF k = "FUEL" THEN 2 ELSE 1]

\* The own team with its pilot on planet P1; three populated planets.
OwnTeamApp(rate) ==
    NewApp(OWN,
           [t \in {OWN} |-> NewTeam(OWN, "P1", {"p1"}, None, InitResources, rate)],
           [p \in {"p1"} |-> NewPlayer(OWN, "Spugna", "Pilot", 1)],
           [k \in PlanetIds |-> NewPlanet(IF k = "P1" THEN {OWN} ELSE {}, 1)],
           FALSE)

IdleApp == NewApp(None, [t \in {} |-> 0], [p \in {} |-> 0], [k \in {} |-> 0], FALSE)

LedgerIdle == resources = [k \in {} |-> 0] /\ ledger_call = NoCall

InitLedger ==
    /\ overflow_checks \in BOOLEAN
    /\ resources \in InitLedgers
    /\ ledger_call = NoCall
    /\ app = IdleApp /\ peer = IdleApp /\ network = {} /\ now = 0

\* Two processes, A (app) and B (peer).  Each has its own world, in which
\* its team is the own team, the other's team has the other's peer id and
\* team T2 is a local team without a peer id.
Procs == {"A", "B"}
TeamOf(self) == IF self = "A" THEN "T1" ELSE "T3"
TradeTeams == {"T1", "T2", "T3"}
TradePlayers == {"p1", "p2", "p3", "p4"}

TradeApp(self) ==
    NewApp(TeamOf(self),
           [t \in TradeTeams |->
                NewTeam(t, "P1",
                        IF t = "T1" THEN {"p1", "p4"} ELSE IF t = "T2" THEN {"p2"} ELSE {"p3"},
                        IF t = "T1" THEN "A" ELSE IF t = "T2" THEN None ELSE "B",
                        InitResources, 4)],
           [p \in TradePlayers |->
                NewPlayer(IF p \in {"p1", "p4"} THEN "T1" ELSE IF p = "p2" THEN "T2" ELSE "T3",
                          None, None,
                          IF p = "p4" THEN 1 ELSE MaxQuantity)],
           [k \in {"P1"} |-> NewPlanet(TradeTeams, 1)],
           TRUE)

InitTrade ==
    /\ overflow_checks = FALSE
    /\ LedgerIdle
    /\ app = TradeApp("A") /\ peer = TradeApp("B")
    /\ network = {} /\ now = 0

Init ==
    /\ overflow_checks = FALSE
    /\ LedgerIdle
    /\ \E rate \in FuelRates : app = OwnTeamApp(rate)
    /\ peer = IdleApp /\ network = {} /\ now = 0

----------------------------------------------------------------------------
(* Actions: one per intent of UiCallback::call, applied to the local        *)
(* process, and the steps of the clock and the tick engine.                *)

TradeAmounts == {-1, 1}
UnitCosts == {1}
MarketResources == {"FUEL", "GOLD", "SCRAPS", "RUM"}

\* An intent runs to completion on the local process; what it returns goes
\* to the user interface.
Call(r) ==
    /\ app' = r.app
    /\ UNCHANGED <<overflow_checks, ledger_vars, peer, network, now>>

TravelToPlanet ==
    \E planet_id \in PlanetIds \cup AsteroidIds :
        Call(travel_to_planet(app, planet_id))

ExploreAroundPlanet ==
    \E duration \in ExploreDurations :
        Call(explore_around_planet(app, duration))

TradeResource ==
    \E resource \in MarketResources, amount \in TradeAmounts, unit_cost \in UnitCosts :
        /\ value(app.world.teams[OWN].resources, "SATOSHI") - amount * unit_cost <= MaxSatoshi
        /\ Call(trade_resource(app, resource, amount, unit_cost))

\* The id World::generate_team_asteroid gives the planet it creates: one no
\* planet has yet.
FreshAsteroidIds(a) ==
    {AllAsteroids[i] : i \in {j \in 1 .. Len(AllAsteroids) :
        /\ AllAsteroids[j] \in AsteroidIds \ DOMAIN a.world.planets
        /\ \A k \in 1 .. (j - 1) : AllAsteroids[k] \in DOMAIN a.world.planets}}

NameAndAcceptAsteroid ==
    \E asteroid_id \in FreshAsteroidIds(app) :
        Call(name_and_accept_asteroid(app, asteroid_id))

SetUpgradeSpaceship ==
    \E upgrade \in Upgrades :
        Call(set_upgrade_spaceship(app, upgrade))

UpgradeSpaceship ==
    \E upgrade \in Upgrades :
        Call(upgrade_spaceship(app, upgrade))

DrinkIntent ==
    \E player_id \in DOMAIN app.world.players :
        \/ Call(Drink(app, player_id, FALSE, None))
        \/ \E to \in DOMAIN app.world.planets :
                Call(Drink(app, player_id, TRUE, to))

StartSpaceAdventureIntent ==
    Call(StartSpaceAdventure(app))

StopSpaceAdventureIntent ==
    Call(StopSpaceAdventure(app))

ReturnFromSpaceAdventureIntent ==
    /\ app.world.own_team_id \in DOMAIN app.world.teams
    /\ \E h \in IF app.world.space_adventure = Nothing
                THEN {[player |-> FALSE, durability |-> MaxDurability,
                       current_durability |-> 0,
                       resources |-> [k \in {} |-> 0], fuel |-> 0]}
                ELSE Harvests(app.world.teams[app.world.own_team_id]) :
        Call(ReturnFromSpaceAdventure(app, h))

\* The wall clock advances.
AdvanceClock ==
    /\ now < MaxNow
    /\ now' = now + 1
    /\ UNCHANGED <<overflow_checks, ledger_vars, app, peer, network>>

\* One pass of the tick engine, at the current time.
TickPass ==
    \E loot \in {None, "RUM"} :
        /\ app' = handle_tick_events(app, now, loot)
        /\ UNCHANGED <<overflow_checks, ledger_vars, peer, network, now>>

Next ==
    \/ TravelToPlanet
    \/ ExploreAroundPlanet
    \/ TradeResource
    \/ DrinkIntent
    \/ StartSpaceAdventureIntent
    \/ StopSpaceAdventureIntent
    \/ ReturnFromSpaceAdventureIntent
    \/ AdvanceClock
    \/ TickPass

\* The process with a peer id, and a step of it: its intent or its network
\* handler runs to completion, and what it sends is in flight.
Proc(self) == IF self = "A" THEN app ELSE peer

TradeStep(self, r, delivered) ==
    /\ app' = IF self = "A" THEN r.app ELSE app
    /\ peer' = IF self = "B" THEN r.app ELSE peer
    /\ network' = (network \ delivered) \cup r.out
    /\ UNCHANGED <<overflow_checks, ledger_vars, now>>

OwnTeamIn(a) == a.world.teams[a.world.own_team_id]

\* A process proposes while fewer than MaxInFlight proposals of its team
\* are outstanding and fewer than MaxInFlight messages are in flight.
\* The proposals a process makes: A for its two players, to the local team
\* and to B's team; B for its player, to the local team.
ProposalsOf(self) ==
    IF self = "A" THEN {"p1", "p4"} \X {"p2", "p3"} ELSE {<<"p3", "p2">>}

CreateTradeProposal ==
    \E self \in Procs, sent \in BOOLEAN :
      \E proposer_player_id \in {k[1] : k \in ProposalsOf(self)},
         target_player_id \in {k[2] : k \in ProposalsOf(self)} :
        /\ Cardinality(network) < MaxInFlight
        /\ Cardinality(OwnTeamIn(Proc(self)).sent_trades) < MaxInFlight
        /\ TradeStep(self,
                     trade_players(Proc(self), proposer_player_id, target_player_id, sent),
                     {})

AcceptTradeIntent ==
    \E self \in Procs :
        \E trade \in OwnTeamIn(Proc(self)).received_trades :
            TradeStep(self, AcceptTrade(Proc(self), trade), {})

DeclineTradeIntent ==
    \E self \in Procs :
        \E trade \in OwnTeamIn(Proc(self)).received_trades :
            TradeStep(self, DeclineTrade(Proc(self), trade), {})

\* The network delivers a message in flight to the process it is for.
DeliverTrade(m) ==
    /\ m \in network
    /\ TradeStep(m.to, handle_trade_topic(Proc(m.to), m), {m})

Deliver ==
    \E m \in network : DeliverTrade(m)

NextTrade ==
    \/ CreateTradeProposal
    \/ AcceptTradeIntent
    \/ DeclineTradeIntent
    \/ Deliver

\* The own team's intents on its spaceship and its asteroids, with travel,
\* exploration and the market.
NextShip ==
    \/ TravelToPlanet
    \/ ExploreAroundPlanet
    \/ TradeResource
    \/ NameAndAcceptAsteroid
    \/ SetUpgradeSpaceship
    \/ UpgradeSpaceship
    \/ AdvanceClock
    \/ TickPass

SpecLedger == InitLedger /\ [][NextLedger]_vars
Spec == Init /\ [][Next]_vars
SpecShip == Init /\ [][NextShip]_vars
SpecTrade == InitTrade /\ [][NextTrade]_vars

\* The messages of the trades A proposes to B's team.
RemoteTrades ==
    {[proposer_player_id |-> k[1], target_player_id |-> k[2],
      proposer_team_id |-> TeamOf("A"), target_team_id |-> TeamOf("B")] :
        k \in {"p1", "p4"} \X {"p3"}}

TradeMessages ==
    {Message("B", st, t) : st \in {"Syn", "Ack"}, t \in RemoteTrades}
    \cup {Message("A", st, t) : st \in {"SynAck", "Failed"}, t \in RemoteTrades}

\* The network layer delivers every message it was given.
SpecTradeFair ==
    InitTrade /\ [][NextTrade]_vars /\ \A m \in TradeMessages : WF_vars(DeliverTrade(m))

----------------------------------------------------------------------------
(* Challenges of teams.  Team::can_challenge_team, the challenge           *)
(* registries, World::generate_game and the network handler are not part   *)
(* of the sources at hand: they follow the specification, in which the     *)
(* challenge protocol is the trade protocol on teams.                      *)

\* A Challenge names the two sides: the proposer's team is the home side.
NewChallenge(w, team_id) == [home_team_id |-> w.own_team_id, away_team_id |-> team_id]

ChallengeMessage(to, state, challenge) ==
    [to |-> to, state |-> state, challenge |-> challenge]

\* Team::can_challenge_team: the teams differ and neither is playing.
can_challenge_team(team, other) ==
    IF team.id = other.id THEN "Cannot challenge own team"
    ELSE IF team.current_game # None \/ other.current_game # None
    THEN "Team is currently playing"
    ELSE Ok

\* sent_challenges is keyed by the challenged team, received_challenges by
\* the challenging team (HashMap::insert, HashMap::remove).
add_sent_challenge(team, challenge) ==
    [team EXCEPT !.sent_challenges =
        {c \in @ : c.away_team_id # challenge.away_team_id} \cup {challenge}]

add_received_challenge(team, challenge) ==
    [team EXCEPT !.received_challenges =
        {c \in @ : c.home_team_id # challenge.home_team_id} \cup {challenge}]

remove_challenge(team, home_team_id, away_team_id) ==
    [team EXCEPT
        !.sent_challenges = {c \in @ : c.away_team_id # away_team_id},
        !.received_challenges = {c \in @ : c.home_team_id # home_team_id}]

\* World::generate_game: the game is stored and both teams are playing it.
NewGame(home, away) ==
    [id |-> home \o "-" \o away, home_team_id |-> home, away_team_id |-> away]

generate_game(w, home, away) ==
    LET game == NewGame(home, away) IN
    [w EXCEPT !.games = @ \cup {game},
              !.teams[home].current_game = game.id,
              !.teams[away].current_game = game.id,
              !.dirty = TRUE, !.dirty_network = TRUE, !.dirty_ui = TRUE]

\* The same, recording the challenge whether or not it was sent.
challenge_peer_unsent(a, peer_id, team_id, sent) ==
    LET w == a.world
        challenge == NewChallenge(w, team_id)
    IN  Reply([a EXCEPT !.world.teams[w.own_team_id] = add_sent_challenge(@, challenge)],
              IF a.network_handler /\ sent THEN Ok ELSE "Cannot send challenge",
              IF a.network_handler /\ sent THEN "Challenge sent" ELSE None,
              IF a.network_handler /\ sent
              THEN {ChallengeMessage(peer_id, "Syn", challenge)} ELSE {})

\* challenge_team, the team has a peer id: send_new_challenge, then
\* add_sent_challenge.  sent: the network layer sent the challenge.
challenge_peer(a, peer_id, team_id, sent) ==
    LET w == a.world
        challenge == NewChallenge(w, team_id)
    IN  IF ~a.network_handler
        THEN Reply(a, "Network handler is not initialized", None, {})
        ELSE IF ~sent THEN Reply(a, "Cannot send challenge", None, {})
        ELSE Reply([a EXCEPT !.world.teams[w.own_team_id] =
                        add_sent_challenge(@, challenge)],
                   Ok, "Challenge sent", {ChallengeMessage(peer_id, "Syn", challenge)})

\* The same, registering the challenge instead of playing the game.
challenge_local_registered(a, team_id, own_is_home) ==
    Reply([a EXCEPT !.world.teams[a.world.own_team_id] =
                add_sent_challenge(@, NewChallenge(a.world, team_id))],
          Ok, "Challenge accepted", {})

\* challenge_team, the team has no peer id: the sides are drawn
\* (own_is_home: gen_range(0..=1) = 0), the game is generated and shown.
challenge_local(a, team_id, own_is_home) ==
    LET w == a.world
        home == IF own_is_home THEN w.own_team_id ELSE team_id
        away == IF own_is_home THEN team_id ELSE w.own_team_id
        played == generate_game(w, home, away)
    IN  Reply([a EXCEPT !.world = played,
                        !.ui = [@ EXCEPT !.game_panel = [games |-> played.games,
                                                         index |-> NewGame(home, away).id],
                                         !.tab = "Games"]],
              Ok, "Challenge accepted", {})

(* src/ui/ui_callback.rs: UiCallback::challenge_team *)
challenge_team(a, team_id, sent, own_is_home) ==
    LET w == a.world IN
    IF w.own_team_id \notin DOMAIN w.teams THEN Reply(a, "Own team not found", None, {})
    ELSE IF team_id \notin DOMAIN w.teams THEN Reply(a, "Team not found", None, {})
    ELSE
    LET own_team == w.teams[w.own_team_id]
        team == w.teams[team_id]
        can == can_challenge_team(own_team, team)
    IN
    IF can # Ok THEN Reply(a, can, None, {})
    ELSE IF team.peer_id # None THEN challenge_peer(a, team.peer_id, team_id, sent)
    ELSE challenge_local(a, team_id, own_is_home)

\* NetworkHandler::accept_challenge: the precondition is checked again on
\* the world as it is now, and the acceptance is sent to the challenger.
accept_challenge(w, challenge) ==
    IF challenge.home_team_id \notin DOMAIN w.teams
    THEN [res |-> "Team not found", out |-> {}]
    ELSE
    LET home_team == w.teams[challenge.home_team_id]
        can == can_challenge_team(home_team, w.teams[w.own_team_id])
    IN  IF can # Ok THEN [res |-> can, out |-> {}]
        ELSE [res |-> Ok,
              out |-> {ChallengeMessage(home_team.peer_id, "SynAck", challenge)}]

\* NetworkHandler::decline_challenge: the refusal is sent to the challenger.
decline_challenge(w, challenge) ==
    IF challenge.home_team_id \notin DOMAIN w.teams
    THEN [res |-> "Team not found", out |-> {}]
    ELSE [res |-> Ok,
          out |-> {ChallengeMessage(w.teams[challenge.home_team_id].peer_id,
                                    "Failed", challenge)}]

(* src/ui/ui_callback.rs: UiCallback::AcceptChallenge *)
AcceptChallenge(a, challenge) ==
    IF ~a.network_handler THEN Reply(a, "Network handler is not initialized", None, {})
    ELSE
    LET sent == accept_challenge(a.world, challenge)
    IN  IF sent.res # Ok THEN Reply(a, sent.res, None, {})
        ELSE IF a.world.own_team_id \notin DOMAIN a.world.teams
        THEN Reply(a, "Own team not found", None, sent.out)
        ELSE Reply([a EXCEPT !.world.teams[a.world.own_team_id] =
                      remove_challenge(@, challenge.home_team_id, challenge.away_team_id)],
                   Ok, None, sent.out)

(* src/ui/ui_callback.rs: UiCallback::DeclineChallenge *)
DeclineChallenge(a, challenge) ==
    IF ~a.network_handler THEN Reply(a, "Network handler is not initialized", None, {})
    ELSE
    LET sent == decline_challenge(a.world, challenge)
    IN  IF sent.res # Ok THEN Reply(a, sent.res, None, {})
        ELSE IF a.world.own_team_id \notin DOMAIN a.world.teams
        THEN Reply(a, "Own team not found", None, sent.out)
        ELSE Reply([a EXCEPT !.world.teams[a.world.own_team_id] =
                      remove_challenge(@, challenge.home_team_id, challenge.away_team_id)],
                   Ok, None, sent.out)

\* The network handler on a challenge message from a peer.
\*   Syn: the challenge is registered in received_challenges.
\*   SynAck: the challenged team accepted; the challenger forgets the
\*           challenge, generates the game if both teams are still free,
\*           and acknowledges.
\*   Ack: the challenger has generated the game; the challenged team
\*        generates it too.
\*   Failed: the challenged team declined; the challenger forgets.
handle_challenge_topic(a, m) ==
    LET w == a.world
        challenge == m.challenge
        own == w.own_team_id
        forgotten == [w EXCEPT !.teams[own] =
                        remove_challenge(@, challenge.home_team_id, challenge.away_team_id)]
        free == can_challenge_team(w.teams[challenge.home_team_id],
                                   w.teams[challenge.away_team_id]) = Ok
    IN
    IF m.state = "Syn"
    THEN Reply([a EXCEPT !.world.teams[own] = add_received_challenge(@, challenge),
                         !.world.dirty_ui = TRUE],
               Ok, None, {})
    ELSE IF m.state = "SynAck"
    THEN IF free
         THEN Reply([a EXCEPT !.world = generate_game(forgotten, challenge.home_team_id,
                                                      challenge.away_team_id)],
                    Ok, None,
                    {ChallengeMessage(w.teams[challenge.away_team_id].peer_id,
                                      "Ack", challenge)})
         ELSE Reply([a EXCEPT !.world = forgotten], "Team is currently playing", None, {})
    ELSE IF m.state = "Ack"
    THEN IF free
         THEN Reply([a EXCEPT !.world = generate_game(w, challenge.home_team_id,
                                                      challenge.away_team_id)],
                    Ok, None, {})
         ELSE Reply(a, "Team is currently playing", None, {})
    ELSE Reply([a EXCEPT !.world = forgotten], Ok, None, {})

\* The two processes of InitTrade with the challenge registries of their
\* teams, the games of their worlds and the game panel of their UIs.
WithFields(r, names, v) ==
    [k \in DOMAIN r \cup names |-> IF k \in DOMAIN r THEN r[k] ELSE v]

ChallengeApp(self) ==
    LET a == TradeApp(self)
        teams == [t \in DOMAIN a.world.teams |->
                    WithFields(a.world.teams[t],
                               {"sent_challenges", "received_challenges"}, {})]
    IN  [a EXCEPT !.world = WithFields([a.world EXCEPT !.teams = teams], {"games"}, {}),
                  !.ui = [state |-> "Main", tab |-> "MyTeam",
                          game_panel |-> [games |-> {}, index |-> None]]]

InitChallenge ==
    /\ overflow_checks = FALSE
    /\ LedgerIdle
    /\ app = ChallengeApp("A") /\ peer = ChallengeApp("B")
    /\ network = {} /\ now = 0

ChallengeTeam ==
    \E self \in Procs, team_id \in TradeTeams, sent \in BOOLEAN, own_is_home \in BOOLEAN :
        TradeStep(self, challenge_team(Proc(self), team_id, sent, own_is_home), {})

AcceptChallengeIntent ==
    \E self \in Procs :
        \E challenge \in OwnTeamIn(Proc(self)).received_challenges :
            TradeStep(self, AcceptChallenge(Proc(self), challenge), {})

DeclineChallengeIntent ==
    \E self \in Procs :
        \E challenge \in OwnTeamIn(Proc(self)).received_challenges :
            TradeStep(self, DeclineChallenge(Proc(self), challenge), {})

\* The network delivers a challenge message to the process it is for.
DeliverChallenge ==
    \E m \in network :
        TradeStep(m.to, handle_challenge_topic(Proc(m.to), m), {m})

NextChallenge ==
    \/ ChallengeTeam
    \/ AcceptChallengeIntent
    \/ DeclineChallengeIntent
    \/ DeliverChallenge

SpecChallenge == InitChallenge /\ [][NextChallenge]_vars

----------------------------------------------------------------------------
(* SpecTick: one call of a function of SystemTimeTick on a tick drawn from *)
(* a bounded set.                                                          *)

\* Times of day on the first two days, and ticks around the u64 word.
TickSamples ==
    { h * HOURS + m * MINUTES + s * SECONDS + ms :
        h \in {0, 1, 23, 24, 25}, m \in {0, 1, 59}, s \in {0, 10, 59}, ms \in {0, 999} }
    \cup {U64Limit - 1, U64Limit, U64Limit + 10 * SECONDS}

InitTick ==
    /\ overflow_checks \in BOOLEAN
    /\ now \in TickSamples
    /\ LedgerIdle
    /\ app = IdleApp /\ peer = IdleApp /\ network = {}

TickCall(call) ==
    /\ ledger_call = NoCall
    /\ ledger_call' = call
    /\ UNCHANGED <<overflow_checks, resources, world_vars>>

\* tests::test_system_time_conversion: to a system time and back.
SystemTimeConversion ==
    TickCall([op |-> "as_system_time", tick |-> now, time |-> as_system_time(now),
              back |-> from_system_time(as_system_time(now))])

Formatted ==
    TickCall([op |-> "formatted", tick |-> now, text |-> formatted(now)])

NextTick ==
    \/ SystemTimeConversion
    \/ Formatted

SpecTick == InitTick /\ [][NextTick]_vars

----------------------------------------------------------------------------
(* SpecStorage: one call of get_storage_lengths on a cargo within the      *)
(* storage capacity.                                                       *)

\* The width of the gauge: ui/constants.rs BARS_LENGTH, as in
\* my_team_panel.rs, 435.
BARS_LENGTH == 25

\* (area.width / 4 - 20).min(BARS_LENGTH) of space_screen.rs, 82: any length
\* up to BARS_LENGTH, here the shortest and the longest.
BarsLengths == (0 .. 3) \cup {BARS_LENGTH - 1, BARS_LENGTH}

StorageLedgers ==
    { [k \in {x \in {"GOLD", "SCRAPS", "RUM"} : f[x] # Absent} |-> f[k]] :
        f \in [{"GOLD", "SCRAPS", "RUM"} -> {Absent} \cup (0 .. MaxQuantity)] }

\* The capacity of a storage that is full, nearly full, and half empty.
StorageCapacities(map) ==
    {c \in {UsedExact(map), UsedExact(map) + 1, 2 * UsedExact(map)} : c > 0}

InitStorage ==
    /\ overflow_checks \in BOOLEAN
    /\ resources \in StorageLedgers
    /\ ledger_call = NoCall
    /\ app = IdleApp /\ peer = IdleApp /\ network = {} /\ now = 0

GetStorageLengths ==
    \E capacity \in StorageCapacities(resources), bars_length \in BarsLengths,
       ties \in [{"GOLD", "SCRAPS", "RUM"} -> BOOLEAN] :
        LET r == get_storage_lengths(resources, capacity, bars_length, ties) IN
        /\ ledger_call = NoCall
        /\ ledger_call' = [op |-> "get_storage_lengths",
                           storage_capacity |-> capacity,
                           bars_length |-> bars_length, res |-> r.res,
                           lengths |-> r.lengths]
        /\ UNCHANGED <<overflow_checks, resources, world_vars>>

NextStorage == GetStorageLengths

SpecStorage == InitStorage /\ [][NextStorage]_vars

----------------------------------------------------------------------------
(* Properties of the own team (Spec, SpecShip) and of the ledger           *)
(* (SpecLedger).  A property of an intent is stated for every call of the  *)
(* intent that can be made in the current state.                           *)

OwnTeam == app.world.teams[OWN]
OwnTeamOf(a) == a.world.teams[OWN]
Busy == {"Travelling", "Exploring", "OnSpaceAdventure"}
KnownPlanets == DOMAIN app.world.planets
TickTimes == 0 .. (MaxNow + 1)
Loots == {None, "RUM"}

\* floor(D * R) and round(D * R) for the rate R = fuel_rate / FuelRateDen
FloorFuel(team, duration) == (duration * team.spaceship.fuel_rate) \div FuelRateDen
RoundFuel(team, duration) ==
    (2 * duration * team.spaceship.fuel_rate + FuelRateDen) \div (2 * FuelRateDen)

\* C1: after any sequence of own-team operations the cargo the team stores
\* is within its storage capacity and its FUEL is within its fuel capacity.
C1_CapacityNeverExceeded ==
    /\ UsedExact(OwnTeam.resources) <= storage_capacity(OwnTeam)
    /\ fuel(OwnTeam) <= fuel_capacity(OwnTeam)

\* C2: a successful add (or positive update) leaves the used capacity
\* within max_capacity, and an add that would take it above max_capacity
\* returns the storage error and leaves the ledger as it was.
C2_AddWithinCapacity ==
    (ledger_call.op = "add" \/ (ledger_call.op = "update" /\ ledger_call.amount > 0)) =>
        LET before == ledger_call.before
            needed == UsedExact(before)
                      + to_storing_space(ledger_call.resource) * ledger_call.amount
        IN  /\ ledger_call.res = Ok => UsedExact(resources) <= ledger_call.max_capacity
            /\ needed > ledger_call.max_capacity =>
                    ledger_call.res = AddErr /\ resources = before

\* C3: a travel or an exploration requested while the own team is
\* Travelling, Exploring or OnSpaceAdventure returns an error and leaves the
\* team's location as it was.
C3_BusyTeamRejected ==
    OwnTeam.current_location.type \in Busy =>
        /\ \A planet_id \in PlanetIds \cup AsteroidIds :
                LET r == travel_to_planet(app, planet_id)
                IN  /\ IsErr(r.res)
                    /\ OwnTeamOf(r.app).current_location = OwnTeam.current_location
        /\ \A duration \in ExploreDurations :
                LET r == explore_around_planet(app, duration)
                IN  /\ IsErr(r.res)
                    /\ OwnTeamOf(r.app).current_location = OwnTeam.current_location

\* A second travel request made while the team is Travelling is rejected.
C3_Witness ==
    /\ OwnTeam.current_location.type = "Travelling"
    /\ \E planet_id \in PlanetIds \ {OwnTeam.current_location.to} :
            travel_to_planet(app, planet_id).res = "Team is travelling"
    /\ explore_around_planet(app, 1).res = "Team is travelling"

\* The FUEL a trip takes when it starts is Deducted(team, duration), and a
\* pass of the tick engine, in flight or on arrival, takes none.
FuelDeductedOnce(Deducted(_, _)) ==
    /\ \A planet_id \in KnownPlanets :
            LET r == travel_to_planet(app, planet_id)
                trip == OwnTeamOf(r.app).current_location
            IN  r.res = Ok =>
                    /\ trip.type = "Travelling"
                    /\ fuel(OwnTeamOf(r.app)) + Deducted(OwnTeam, trip.duration)
                            = fuel(OwnTeam)
    /\ \A duration \in ExploreDurations :
            LET r == explore_around_planet(app, duration)
            IN  r.res = Ok =>
                    /\ OwnTeamOf(r.app).current_location.type = "Exploring"
                    /\ fuel(OwnTeamOf(r.app)) + Deducted(OwnTeam, duration)
                            = fuel(OwnTeam)
    /\ \A current_tick \in TickTimes, loot \in Loots :
            fuel(OwnTeamOf(handle_tick_events(app, current_tick, loot))) = fuel(OwnTeam)

AsStated(team, duration) == Max(1, RoundFuel(team, duration))
AsCoded(team, duration) == Max(1, FloorFuel(team, duration))

\* C4 as stated: a trip of duration D at rate R takes max(1, round(D * R))
\* units of FUEL, once, when it starts.
C4_FuelRoundedDeductedOnce == FuelDeductedOnce(AsStated)

\* C4: a trip of duration D at rate R takes max(1, floor(D * R)) units of
\* FUEL, once, when it starts; no tick pass takes FUEL afterwards.
C4_FuelFloorDeductedOnce == FuelDeductedOnce(AsCoded)

\* A trip for which floor and round differ is in flight, and the team has
\* what it started the session with less the floor.
C4_Witness ==
    LET trip == OwnTeam.current_location
    IN  /\ trip.type = "Exploring"
        /\ RoundFuel(OwnTeam, trip.duration) > FloorFuel(OwnTeam, trip.duration)
        /\ FloorFuel(OwnTeam, trip.duration) >= 1
        /\ fuel(OwnTeam) + AsCoded(OwnTeam, trip.duration) = value(InitResources, "FUEL")
        /\ app.world.last_tick_short_interval > trip.started

InsufficientFuel == {"Not enough fuel", SubErr}

\* C5: a trip requested by a team on a planet whose FUEL is less than the
\* trip takes fails for lack of fuel; the team (its location and its
\* ledger) and the planet's roster, which lists the team, stay as they were.
C5_InsufficientFuelRejected ==
    OwnTeam.current_location.type = "OnPlanet" =>
        LET here == OwnTeam.current_location.planet_id
            Rejected(r) ==
                /\ r.res \in InsufficientFuel
                /\ OwnTeamOf(r.app) = OwnTeam
                /\ r.app.world.planets[here] = app.world.planets[here]
                /\ OWN \in r.app.world.planets[here].team_ids
        IN  /\ \A duration \in ExploreDurations :
                    fuel(OwnTeam) < AsCoded(OwnTeam, duration) =>
                        Rejected(explore_around_planet(app, duration))
            /\ \A planet_id \in KnownPlanets \ {here} :
                    fuel(OwnTeam) < AsCoded(OwnTeam, travel_time_to_planet(here, planet_id)) =>
                        Rejected(travel_to_planet(app, planet_id))

\* A team on a planet with no FUEL left asks for a trip.
C5_Witness ==
    /\ OwnTeam.current_location.type = "OnPlanet"
    /\ fuel(OwnTeam) = 0
    /\ explore_around_planet(app, 1).res \in InsufficientFuel
    /\ \E planet_id \in KnownPlanets :
            travel_to_planet(app, planet_id).res \in InsufficientFuel

SameWorld(r) ==
    IsErr(r.res) =>
        /\ r.app.world.teams = app.world.teams
        /\ r.app.world.players = app.world.players
        /\ r.app.world.planets = app.world.planets

AllAmounts == {0 - MaxQuantity, -1, 1, MaxQuantity}

----------------------------------------------------------------------------
(* Properties of the trade protocol (SpecTrade, SpecTradeFair) *)

TeamsOf(w, proposer_player_id, target_player_id) ==
    <<w.players[proposer_player_id].team, w.players[target_player_id].team>>

\* In w2 the two players are in each other's team of w1, and the rosters of
\* the teams say so.
Swapped(w1, w2, proposer_player_id, target_player_id) ==
    /\ w2.players[proposer_player_id].team = w1.players[target_player_id].team
    /\ w2.players[target_player_id].team = w1.players[proposer_player_id].team
    /\ \A p \in DOMAIN w2.players : p \in w2.teams[w2.players[p].team].player_ids

SameTeams(w1, w2) ==
    /\ w2.players = w1.players
    /\ \A t \in DOMAIN w1.teams : w2.teams[t].player_ids = w1.teams[t].player_ids

SameRegistries(w1, w2) ==
    \A t \in DOMAIN w1.teams :
        /\ w2.teams[t].sent_trades = w1.teams[t].sent_trades
        /\ w2.teams[t].received_trades = w1.teams[t].received_trades

IsLocalTarget(a, target_player_id) ==
    a.world.teams[a.world.players[target_player_id].team].peer_id = None

\* C7: a proposal to a player of a local team (no peer id) is settled at
\* once: the two players swap teams if and only if the proposer player's
\* bare value is at least the target player's, otherwise nothing changes;
\* either way no registry of any team gets an entry and nothing is sent.
C7_LocalTradeSettledAtOnce ==
    \A self \in Procs, proposer_player_id \in TradePlayers,
       target_player_id \in TradePlayers, sent \in BOOLEAN :
        LET a == Proc(self)
            r == trade_players(a, proposer_player_id, target_player_id, sent)
            accepted == a.world.players[proposer_player_id].bare_value
                            >= a.world.players[target_player_id].bare_value
        IN  (IsLocalTarget(a, target_player_id) /\ r.res = Ok) =>
                /\ accepted => /\ Swapped(a.world, r.app.world,
                                           proposer_player_id, target_player_id)
                               /\ r.text = "Trade accepted"
                /\ ~accepted => /\ r.app = a
                                /\ r.text = "Trade Rejected"
                /\ SameRegistries(a.world, r.app.world)
                /\ r.out = {}

\* A's p1 has swapped teams with p2 of the local team, and A's p4, of a
\* lesser value than p1, is refused a trade for p1.
C7_Witness ==
    /\ TeamsOf(app.world, "p1", "p2") = <<"T2", "T1">>
    /\ trade_players(app, "p4", "p1", TRUE).text = "Trade Rejected"
    /\ trade_players(app, "p2", "p1", TRUE).text = "Trade accepted"

ProcOfTeam(t) == IF t = TeamOf("A") THEN "A" ELSE "B"

InFlight(states, trade) ==
    \E m \in network : m.state \in states /\ TradeKey(m.trade) = TradeKey(trade)

C9_Resolution ==
    /\ \A self \in Procs :
            \A trade \in OwnTeamIn(Proc(self)).received_trades :
                LET a == Proc(self)
                    acc == AcceptTrade(a, trade)
                    dec == DeclineTrade(a, trade)
                IN  /\ acc.res = Ok =>
                            /\ TradeKey(trade) \notin Keys(OwnTeamIn(acc.app).received_trades)
                            /\ \E m \in acc.out : m.state = "SynAck" /\ m.trade = trade
                    /\ dec.res = Ok
                    /\ TradeKey(trade) \notin Keys(OwnTeamIn(dec.app).received_trades)
                    /\ SameTeams(a.world, dec.app.world)
                    /\ \A m \in dec.out : m.state = "Failed" /\ m.trade = trade
    /\ \A m \in network :
            LET a == Proc(m.to)
                r == handle_trade_topic(a, m)
                p == m.trade.proposer_player_id
                t == m.trade.target_player_id
            IN  /\ m.state = "SynAck" =>
                        /\ TradeKey(m.trade) \notin Keys(OwnTeamIn(r.app).sent_trades)
                        /\ Swapped(a.world, r.app.world, p, t)
                        /\ \E ack \in r.out : ack.state = "Ack" /\ ack.trade = m.trade
                /\ m.state = "Ack" => Swapped(a.world, r.app.world, p, t)
                /\ m.state = "Failed" =>
                        /\ TradeKey(m.trade) \notin Keys(OwnTeamIn(r.app).sent_trades)
                        /\ SameTeams(a.world, r.app.world)
                        /\ r.out = {}
                /\ m.state = "Syn" => SameTeams(a.world, r.app.world)

Precondition(a, team_id, proposer_player_id, target_player_id) ==
    can_trade_players(a.world.teams[team_id], proposer_player_id, target_player_id,
                      a.world.teams[a.world.players[target_player_id].team])

----------------------------------------------------------------------------
(* Proposals already outstanding *)

AlreadyProposed(a, proposer_player_id, target_player_id) ==
    <<proposer_player_id, target_player_id>> \in Keys(OwnTeamIn(a).sent_trades)

\* C11: a trade proposed to a remote team while the same proposal is in the
\* proposer's sent_trades is rejected with an error: nothing is sent and
\* the registry stays as it was.
C11_DuplicateProposalRejected ==
    \A self \in Procs, k \in TradePlayers \X TradePlayers :
        LET a == Proc(self)
            r == trade_players(a, k[1], k[2], TRUE)
        IN  AlreadyProposed(a, k[1], k[2]) =>
                /\ r.res # Ok
                /\ r.out = {}
                /\ OwnTeamIn(r.app).sent_trades = OwnTeamIn(a).sent_trades

----------------------------------------------------------------------------
(* Challenges (SpecChallenge) *)

GamesOf(a) == a.world.games
SentChallenges(a) == OwnTeamIn(a).sent_challenges

\* C12: a ChallengeTeam that passes can_challenge_team, on a team without a
\* peer id, generates exactly one game, between the own team and that team
\* in either order, and leaves sent_challenges as it was; on a team with a
\* peer id it puts one entry for that team in sent_challenges, sends it and
\* generates no game; and no game of a challenge is in the challenger's
\* world while the challenge is in its sent_challenges.
C12_ChallengeLocalOrRemote ==
    /\ \A self \in Procs, team_id \in TradeTeams, own_is_home \in BOOLEAN :
            LET a == Proc(self)
                own == a.world.own_team_id
                r == challenge_team(a, team_id, TRUE, own_is_home)
                new == GamesOf(r.app) \ GamesOf(a)
                added == SentChallenges(r.app) \ SentChallenges(a)
            IN  r.res = Ok =>
                    IF a.world.teams[team_id].peer_id = None
                    THEN /\ GamesOf(a) \subseteq GamesOf(r.app)
                         /\ Cardinality(new) = 1
                         /\ \A g \in new : {g.home_team_id, g.away_team_id} = {own, team_id}
                         /\ SentChallenges(r.app) = SentChallenges(a)
                         /\ r.out = {}
                    ELSE /\ GamesOf(r.app) = GamesOf(a)
                         /\ \E c \in SentChallenges(r.app) :
                                /\ c.away_team_id = team_id
                                /\ added \subseteq {c}
                                /\ SentChallenges(a) \ SentChallenges(r.app) \subseteq {c}
                                /\ r.out = {ChallengeMessage(a.world.teams[team_id].peer_id,
                                                             "Syn", c)}
                         /\ (\A c \in SentChallenges(a) : c.away_team_id # team_id)
                                => Cardinality(SentChallenges(r.app))
                                     = Cardinality(SentChallenges(a)) + 1
    /\ \A self \in Procs :
            \A c \in SentChallenges(Proc(self)) :
                NewGame(c.home_team_id, c.away_team_id) \notin GamesOf(Proc(self))

\* A has challenged the local team T2, and plays it as the away side; B has
\* challenged A's team, and has no game.
C12_Witness ==
    /\ GamesOf(app) = {NewGame("T2", "T1")}
    /\ SentChallenges(app) = {}
    /\ SentChallenges(peer) = {NewChallenge(peer.world, "T1")}
    /\ GamesOf(peer) = {}

----------------------------------------------------------------------------
(* The ledger, continued (SpecLedger) *)

\* C13: saturating_add never fails, on any ledger and for any resource,
\* amount and max_capacity, whether or not the ledger is within
\* max_capacity, and it never raises the used capacity to a value above
\* max_capacity.
C13_SaturatingAddNeverFails ==
    ledger_call.op = "saturating_add" =>
        /\ ledger_call.res = Ok
        /\ UsedExact(resources) > ledger_call.max_capacity =>
                UsedExact(resources) <= UsedExact(ledger_call.before)

\* C14: sub of more than the ledger holds of a kind returns the
\* insufficient-resources error and leaves the ledger as it was; sub of at
\* most what it holds takes exactly the amount from that kind and changes
\* no other kind.
C14_SubExactOrRejected ==
    ledger_call.op = "sub" =>
        LET before == ledger_call.before
            resource == ledger_call.resource
            amount == ledger_call.amount
        IN  IF amount > value(before, resource)
            THEN ledger_call.res = SubErr /\ resources = before
            ELSE /\ ledger_call.res = Ok
                 /\ value(resources, resource) = value(before, resource) - amount
                 /\ \A k \in Resource \ {resource} :
                        /\ value(resources, k) = value(before, k)
                        /\ k \in DOMAIN resources <=> k \in DOMAIN before

\* All the GOLD of a ledger that holds other kinds too has been removed.
C14_Witness ==
    /\ ledger_call.op = "sub"
    /\ ledger_call.resource = "GOLD"
    /\ ledger_call.amount = MaxQuantity
    /\ ledger_call.res = Ok
    /\ value(ledger_call.before, "GOLD") = MaxQuantity
    /\ value(resources, "GOLD") = 0
    /\ value(resources, "RUM") = 1

----------------------------------------------------------------------------
(* The time left of a trip (Spec) *)

\* C15: the time left shown for a Travelling or Exploring team is
\* max(0, started + duration - last_tick_short_interval): it is never
\* negative, and it is 0 for every tick at or after started + duration.
C15_CountdownNeverNegative ==
    LET loc == OwnTeam.current_location IN
    loc.type \in {"Travelling", "Exploring"} =>
        \A tick \in TickTimes \cup {app.world.last_tick_short_interval} :
            LET left == countdown(loc.started, loc.duration, tick) IN
            /\ left = Max(0, loc.started + loc.duration - tick)
            /\ left >= 0
            /\ tick >= loc.started + loc.duration => left = 0

\* The last tick pass was at the very end of a trip that is still on: the
\* time left shown is 0.
C15_Witness ==
    LET loc == OwnTeam.current_location IN
    /\ loc.type = "Travelling"
    /\ app.world.last_tick_short_interval = loc.started + loc.duration
    /\ countdown(loc.started, loc.duration, app.world.last_tick_short_interval) = 0

----------------------------------------------------------------------------
(* Space adventures (Spec) *)

LocationOf(a) == OwnTeamOf(a).current_location

\* C16: StartSpaceAdventure succeeds only for a team on a planet p and
\* moves it to OnSpaceAdventure around p; the ReturnFromSpaceAdventure that
\* follows puts the team back on p.
C16_AdventureRoundTrip ==
    LET start == StartSpaceAdventure(app)
        from == LocationOf(app)
    IN  start.res = Ok =>
            /\ from.type = "OnPlanet"
            /\ LocationOf(start.app) = OnSpaceAdventure(from.planet_id)
            /\ \A h \in Harvests(OwnTeamOf(start.app)) :
                    LocationOf(ReturnFromSpaceAdventure(start.app, h).app) = from

Cargo == {"GOLD", "SCRAPS", "RUM"}

\* C17: when the team returns from an adventure whose ship has no current
\* durability left, its GOLD, SCRAPS, RUM and FUEL are all 0; when the ship
\* has some left, its cargo and FUEL are those of the adventure's ship; in
\* both cases the spaceship gets the current durability of the adventure's
\* ship.
C17_LostShipLosesCargo ==
    (LocationOf(app).type = "OnSpaceAdventure" /\ app.world.space_adventure # Nothing) =>
        \A h \in Harvests(OwnTeam) :
            LET team == OwnTeamOf(ReturnFromSpaceAdventure(app, h).app) IN
            h.player =>
                /\ IF h.current_durability = 0
                   THEN \A k \in Cargo \cup {"FUEL"} : value(team.resources, k) = 0
                   ELSE /\ \A k \in Cargo :
                                value(team.resources, k) = value(h.resources, k)
                        /\ value(team.resources, "FUEL") = h.fuel
                /\ team.spaceship.current_durability = h.current_durability

----------------------------------------------------------------------------
(* The portal a drinking pilot may find (Spec) *)

\* The team of a player, in an application state.
TeamOfPlayer(a, player_id) == a.world.teams[a.world.players[player_id].team]

\* C18: a Drink that succeeds never changes the team's FUEL, and changes
\* the team's location only if the team is Travelling or Exploring: the new
\* location is then Travelling, from the planet the team left (from) or was
\* exploring around (around), to a planet that is neither that one nor the
\* one the team was heading to, for the fixed portal duration.
C18_PortalRetargetsInFlightOnly ==
    \A player_id \in DOMAIN app.world.players, portal \in BOOLEAN,
       to \in DOMAIN app.world.planets \cup {None} :
        LET r == Drink(app, player_id, portal, to) IN
        r.res = Ok =>
            LET before == TeamOfPlayer(app, player_id)
                after == TeamOfPlayer(r.app, player_id)
                old == before.current_location
                new == after.current_location
            IN  /\ value(after.resources, "FUEL") = value(before.resources, "FUEL")
                /\ new # old =>
                    /\ old.type \in {"Travelling", "Exploring"}
                    /\ new.type = "Travelling"
                    /\ new.from = (IF old.type = "Travelling" THEN old.from ELSE old.around)
                    /\ new.to # new.from
                    /\ old.type = "Travelling" => new.to # old.to
                    /\ new.duration = PORTAL_DURATION

\* A Travelling team whose pilot's drink opens a portal that re-targets it.
C18_Witness ==
    \E player_id \in DOMAIN app.world.players, to \in DOMAIN app.world.planets :
        LET r == Drink(app, player_id, TRUE, to) IN
        /\ r.res = Ok
        /\ TeamOfPlayer(app, player_id).current_location.type = "Travelling"
        /\ TeamOfPlayer(r.app, player_id).current_location
                # TeamOfPlayer(app, player_id).current_location
        /\ value(TeamOfPlayer(app, player_id).resources, "FUEL") > 0

----------------------------------------------------------------------------
(* The flags of the world that persistence, the interface and the network   *)
(* layer consume (Spec)                                                    *)

\* What every intent of the interface can return in the current state.
IntentResults ==
    {travel_to_planet(app, planet_id) : planet_id \in PlanetIds \cup AsteroidIds}
    \cup {explore_around_planet(app, duration) : duration \in ExploreDurations}
    \cup {trade_resource(app, c[1], c[2], c[3]) :
            c \in MarketResources \X TradeAmounts \X UnitCosts}
    \cup {Drink(app, c[1], c[2], c[3]) :
            c \in (DOMAIN app.world.players) \X BOOLEAN
                    \X (DOMAIN app.world.planets \cup {None})}
    \cup {StartSpaceAdventure(app), StopSpaceAdventure(app)}
    \cup {ReturnFromSpaceAdventure(app, h) : h \in Harvests(OwnTeam)}

\* The part of the world that is saved.
Persisted(w) == <<w.teams, w.players, w.planets>>

\* C19: an intent that succeeds and changes the teams, the players or the
\* planets of the world leaves world.dirty set.
C19_MutationSetsDirty ==
    \A r \in IntentResults :
        (r.res = Ok /\ Persisted(r.app.world) # Persisted(app.world)) =>
            r.app.world.dirty

----------------------------------------------------------------------------
(* Arrival of a travelling team (Spec) *)

\* One more pass of the tick engine, at any time and with any loot, leaves
\* the teams, the players and the planets of a as they are.
PassChangesNothing(a) ==
    \A tick \in TickTimes, loot \in Loots :
        Persisted(handle_tick_events(a, tick, loot).world) = Persisted(a.world)

----------------------------------------------------------------------------
(* The ledger: update, saturating_add, saturating_sub (SpecLedger) *)

\* What a ledger operation returns and leaves, as a pair.
Outcome(r) == <<r.res, r.map>>

\* C21: update(kind, n, max_capacity) returns and leaves what
\* add(kind, n, max_capacity) does when n > 0, what sub(kind, -n) does when
\* n < 0, and returns Ok with the ledger as it was when n = 0, for every
\* i32 n.
C21_UpdateRoutesBySign ==
    ledger_call.op = "update" =>
        LET before == ledger_call.before
            resource == ledger_call.resource
            n == ledger_call.amount
            done == <<ledger_call.res, resources>>
        IN  IF n > 0
            THEN done = Outcome(add(before, resource, n, ledger_call.max_capacity))
            ELSE IF n < 0
            THEN done = Outcome(sub(before, resource, 0 - n))
            ELSE done = <<Ok, before>>

\* C22: saturating_add(kind, amount, max_capacity) raises value(kind) by
\* exactly min(amount, (max_capacity - used capacity) / weight(kind)) when
\* the weight of the kind is positive, by exactly amount when it is 0, and
\* changes the quantity of no other kind.
C22_SaturatingAddClampedIncrement ==
    ledger_call.op = "saturating_add" =>
        LET before == ledger_call.before
            resource == ledger_call.resource
            amount == ledger_call.amount
            weight == to_storing_space(resource)
            increment ==
                IF weight > 0
                THEN Min(amount,
                         (ledger_call.max_capacity - UsedExact(before)) \div weight)
                ELSE amount
        IN  /\ value(resources, resource) = value(before, resource) + increment
            /\ \A k \in Resource \ {resource} : value(resources, k) = value(before, k)

\* C23: saturating_sub(kind, amount) never fails and leaves
\* max(0, value(kind) - amount) of the kind, whether or not the ledger has an
\* entry for it, and the quantity of every other kind as it was.
C23_SaturatingSubFloorsAtZero ==
    ledger_call.op = "saturating_sub" =>
        LET before == ledger_call.before
            resource == ledger_call.resource
        IN  /\ ledger_call.res = Ok
            /\ value(resources, resource)
                    = Max(0, value(before, resource) - ledger_call.amount)
            /\ \A k \in Resource \ {resource} : value(resources, k) = value(before, k)

\* More RUM than the ledger holds has been taken from a ledger that holds
\* GOLD too, and some GOLD from a ledger with no entry for it.
C23_Witness ==
    /\ ledger_call.op = "saturating_sub"
    /\ \/ /\ ledger_call.resource = "RUM"
          /\ 0 < value(ledger_call.before, "RUM")
          /\ value(ledger_call.before, "RUM") < ledger_call.amount
          /\ value(ledger_call.before, "GOLD") = MaxQuantity
          /\ value(resources, "RUM") = 0
       \/ /\ ledger_call.resource = "GOLD"
          /\ "GOLD" \notin DOMAIN ledger_call.before
          /\ ledger_call.amount > 0
          /\ value(resources, "GOLD") = 0

----------------------------------------------------------------------------
(* The flags are never cleared by an intent (Spec) *)

Flags == {"dirty", "dirty_ui", "dirty_network"}

----------------------------------------------------------------------------
(* Ticks and system times (SpecTick) *)

\* C25: a tick converted to a system time and back is the same tick, for
\* every tick.
C25_SystemTimeRoundTrip ==
    ledger_call.op = "as_system_time" => ledger_call.back = ledger_call.tick

\* The character of a digit.
DigitChar(d) == DigitChars[d + 1]

\* C27: a duration shorter than one day is rendered as the eight characters
\* HH:MM:SS, where HH is the whole hours, MM the minutes modulo 60 and SS the
\* seconds modulo 60, each on two digits; 10 seconds is 00:00:10.
C27_FormattedShortDuration ==
    /\ formatted(10 * SECONDS) = <<"0", "0", ":", "0", "0", ":", "1", "0">>
    /\ (ledger_call.op = "formatted" /\ ledger_call.tick < DAYS) =>
        LET text == ledger_call.text
            total == ledger_call.tick \div 1000
            hh == total \div 3600
            mm == (total \div 60) % 60
            ss == total % 60
        IN  /\ Len(text) = 8
            /\ text[1] = DigitChar(hh \div 10) /\ text[2] = DigitChar(hh % 10)
            /\ text[3] = ":"
            /\ text[4] = DigitChar(mm \div 10) /\ text[5] = DigitChar(mm % 10)
            /\ text[6] = ":"
            /\ text[7] = DigitChar(ss \div 10) /\ text[8] = DigitChar(ss % 10)

\* 23:59:59 and 999 milliseconds has been rendered.
C27_Witness ==
    /\ ledger_call.op = "formatted"
    /\ ledger_call.tick = DAYS - 1
    /\ ledger_call.text = <<"2", "3", ":", "5", "9", ":", "5", "9">>

----------------------------------------------------------------------------
(* The storage gauge (SpecStorage) *)

\* C26: for a ledger within the storage capacity and any bars_length,
\* get_storage_lengths returns without an arithmetic underflow four lengths
\* whose sum is bars_length; for an empty ledger they are 0, 0, 0 and
\* bars_length.
C26_StorageBarsFillTheGauge ==
    (ledger_call.op = "get_storage_lengths"
        /\ UsedExact(resources) <= ledger_call.storage_capacity) =>
        /\ ledger_call.res = Ok
        /\ Len(ledger_call.lengths) = 4
        /\ ledger_call.lengths[1] + ledger_call.lengths[2] + ledger_call.lengths[3]
                + ledger_call.lengths[4] = ledger_call.bars_length
        /\ UsedExact(resources) = 0 =>
                ledger_call.lengths = <<0, 0, 0, ledger_call.bars_length>>

----------------------------------------------------------------------------
(* The space adventure and the own team (Spec) *)

\* C28: the world holds a space adventure exactly when the own team is
\* OnSpaceAdventure, in every state that intents and tick passes lead to.
C28_AdventureIffOnSpaceAdventure ==
    (app.world.space_adventure # Nothing) <=> (LocationOf(app).type = "OnSpaceAdventure")

\* C29: the interface is in the SpaceAdventure state only while the world
\* holds a space adventure, and a StartSpaceAdventure that fails leaves the
\* state of the interface as it was.
C29_SpaceScreenOnlyWithAdventure ==
    /\ app.ui.state = "SpaceAdventure" => app.world.space_adventure # Nothing
    /\ LET start == StartSpaceAdventure(app) IN
       start.res # Ok => start.app.ui.state = app.ui.state

----------------------------------------------------------------------------
(* The rosters of the planets (SpecShip) *)

\* The planets that list the team.
ListedOn(a, team_id) ==
    {p \in DOMAIN a.world.planets : team_id \in a.world.planets[p].team_ids}

\* C30: a planet lists the own team only if the team is OnPlanet at that
\* planet, so at most one planet lists it: a team that has left for a
\* travel or an exploration is listed nowhere, and a team that has moved to
\* its new asteroid is listed on the asteroid only.
C30_RosterFollowsLocation ==
    /\ \A p \in ListedOn(app, OWN) : LocationOf(app) = OnPlanet(p)
    /\ Cardinality(ListedOn(app, OWN)) <= 1

----------------------------------------------------------------------------
(* src/audio/mod.rs: MusicPlayer.  sources is the number of sources        *)
(* loaded, source_index an Option<usize>; of the rodio Sink the model      *)
(* keeps whether it is paused and the indexes of the sources queued.       *)
(* The player is in the variable resources, the last call and the player   *)
(* before it in ledger_call.                                               *)

\* The longest playlist considered.
MaxSources == 3

\* Sink::play, Sink::pause, Sink::clear (which empties the queue and pauses
\* the sink) and Sink::append
sink_play(sink) == [sink EXCEPT !.paused = FALSE]
sink_pause(sink) == [sink EXCEPT !.paused = TRUE]
sink_clear(sink) == [sink EXCEPT !.paused = TRUE, !.queue = <<>>]
sink_append(sink, source) == [sink EXCEPT !.queue = Append(@, source)]

play(player) == [player EXCEPT !.sink = sink_play(@), !.is_playing = TRUE]

pause(player) == [player EXCEPT !.sink = sink_pause(@), !.is_playing = FALSE]

\* sink.clear(); sink.append(sources[source_index]); if is_playing { sink.play() }
restart_sink(player) ==
    LET queued == sink_append(sink_clear(player.sink), Get(player.source_index))
    IN  [player EXCEPT !.sink = IF player.is_playing THEN sink_play(queued) ELSE queued]

\* The same without the wrap from the first source to the last.
previous_stops_at_first(player) ==
    restart_sink([player EXCEPT !.source_index =
        IF @ = Nothing THEN Some(0)
        ELSE IF Get(@) = 0 THEN Some(0) ELSE Some(Get(@) - 1)])

previous(player) ==
    restart_sink([player EXCEPT !.source_index =
        IF @ = Nothing THEN Some(0)
        ELSE Some((Get(@) + player.sources - 1) % player.sources)])

next(player) ==
    restart_sink([player EXCEPT !.source_index =
        IF @ = Nothing THEN Some(0)
        ELSE Some((Get(@) + 1) % player.sources)])

toggle(player) == IF player.is_playing THEN pause(player) ELSE play(player)

check_if_next(player) == IF player.sink.queue = <<>> THEN next(player) ELSE player

\* MusicPlayer::new with a playlist of n sources: loaded, paused, on the
\* first source.
NewMusicPlayer(n) ==
    next(pause([is_playing |-> TRUE, sources |-> n, source_index |-> Nothing,
                sink |-> [paused |-> FALSE, queue |-> <<>>]]))

(* SpecMusic: the calls the user interface makes on the player, and the    *)
(* sink reaching the end of the source it plays.                           *)

InitMusic ==
    /\ overflow_checks = FALSE
    /\ \E n \in 1 .. MaxSources : resources = NewMusicPlayer(n)
    /\ ledger_call = NoCall
    /\ app = IdleApp /\ peer = IdleApp /\ network = {} /\ now = 0

MusicCall(op, player) ==
    /\ resources' = player
    /\ ledger_call' = [op |-> op, before |-> resources]
    /\ UNCHANGED <<overflow_checks, world_vars>>

PlayMusic == MusicCall("play", play(resources))
PauseMusic == MusicCall("pause", pause(resources))
ToggleMusic == MusicCall("toggle", toggle(resources))
NextSource == MusicCall("next", next(resources))
PreviousSource == MusicCall("previous", previous(resources))
CheckIfNext == MusicCall("check_if_next", check_if_next(resources))

\* The sink, playing, comes to the end of the source queued.
SourceEnds ==
    /\ ~resources.sink.paused
    /\ resources.sink.queue # <<>>
    /\ resources' = [resources EXCEPT !.sink.queue = <<>>]
    /\ UNCHANGED <<overflow_checks, ledger_call, world_vars>>

NextMusic ==
    \/ PlayMusic
    \/ PauseMusic
    \/ ToggleMusic
    \/ NextSource
    \/ PreviousSource
    \/ CheckIfNext
    \/ SourceEnds

SpecMusic == InitMusic /\ [][NextMusic]_vars

----------------------------------------------------------------------------
(* The asteroids of the own team (SpecShip) *)

\* C31: the own team never owns more than MAX_NUM_ASTEROID_PER_TEAM
\* asteroids; once it owns that many, name_and_accept_asteroid fails with
\* "Team has reached max number of asteroids." and creates no planet.
C31_AsteroidsWithinMaximum ==
    /\ Cardinality(OwnTeam.asteroid_ids) <= MAX_NUM_ASTEROID_PER_TEAM
    /\ Cardinality(OwnTeam.asteroid_ids) >= MAX_NUM_ASTEROID_PER_TEAM =>
        \A asteroid_id \in FreshAsteroidIds(app) :
            LET r == name_and_accept_asteroid(app, asteroid_id) IN
            /\ r.res = "Team has reached max number of asteroids."
            /\ DOMAIN r.app.world.planets = DOMAIN app.world.planets

----------------------------------------------------------------------------
(* Proposals to remote teams and the network layer (SpecChallenge) *)

\* The application as it is without a network handler.
WithHandler(a, handler) == [a EXCEPT !.network_handler = handler]

IsRemoteTeam(a, team_id) == a.world.teams[team_id].peer_id # None

\* C32: a trade or a challenge proposed to a team with a peer id is in
\* sent_trades / sent_challenges only after the network layer has sent it:
\* when the intent succeeds the proposal was sent and is in the registry;
\* when the sending fails or there is no network handler the intent returns
\* an error, sends nothing and leaves the registries as they were.
C32_RecordedOnlyAfterSend ==
    \A self \in Procs, handler \in BOOLEAN, sent \in BOOLEAN :
        LET a == WithHandler(Proc(self), handler) IN
        /\ \A team_id \in TradeTeams, own_is_home \in BOOLEAN :
                LET r == challenge_team(a, team_id, sent, own_is_home) IN
                IsRemoteTeam(a, team_id) =>
                    /\ r.res = Ok =>
                            /\ handler /\ sent
                            /\ \E m \in r.out :
                                    m.state = "Syn" /\ m.challenge \in SentChallenges(r.app)
                    /\ ~(handler /\ sent) =>
                            /\ r.res # Ok
                            /\ r.out = {}
                            /\ SentChallenges(r.app) = SentChallenges(a)
                            /\ r.app = a
        /\ \A k \in TradePlayers \X TradePlayers :
                LET r == trade_players(a, k[1], k[2], sent) IN
                ~IsLocalTarget(a, k[2]) =>
                    /\ r.res = Ok =>
                            /\ handler /\ sent
                            /\ \E m \in r.out :
                                    m.state = "Syn" /\ m.trade \in OwnTeamIn(r.app).sent_trades
                    /\ ~(handler /\ sent) =>
                            /\ r.res # Ok
                            /\ r.out = {}
                            /\ OwnTeamIn(r.app).sent_trades = OwnTeamIn(a).sent_trades
                            /\ r.app = a

\* A has challenged B's team and the challenge is on its way, and a second
\* challenge that the network layer does not send is refused.
C32_Witness ==
    /\ \E c \in SentChallenges(app) :
            /\ c.away_team_id = TeamOf("B")
            /\ ChallengeMessage("B", "Syn", c) \in network
    /\ \E team_id \in TradeTeams :
            /\ IsRemoteTeam(peer, team_id)
            /\ can_challenge_team(OwnTeamIn(peer), peer.world.teams[team_id]) = Ok
            /\ challenge_team(peer, team_id, FALSE, TRUE).res = "Cannot send challenge"

----------------------------------------------------------------------------
(* The market: what one trade does to the ledger (SpecShip) *)

\* The amounts and the unit costs of the intents considered: a few units,
\* at every cost a u32 holds.
MarketAmounts == {0 - 2, 0 - 1, 1, 2}
MarketCosts == 0 .. U32_MAX

\* C33: a successful trade_resource of amount n at unit cost c changes the
\* traded resource by exactly n and SATOSHI by exactly -n * c, the product
\* being the exact one, and leaves the other resources as they were; a
\* purchase whose exact cost is more than the team's SATOSHI fails and the
\* application is unchanged.
C33_TradeIsExact ==
    \A resource \in MarketResources, amount \in MarketAmounts, unit_cost \in MarketCosts :
        LET r == trade_resource(app, resource, amount, unit_cost)
            before == OwnTeam.resources
            after == OwnTeamOf(r.app).resources
        IN  /\ r.res = Ok =>
                /\ value(after, resource) = value(before, resource) + amount
                /\ value(after, "SATOSHI") = value(before, "SATOSHI") - amount * unit_cost
                /\ \A k \in Resource \ {resource, "SATOSHI"} :
                        value(after, k) = value(before, k)
            /\ (amount > 0 /\ amount * unit_cost > value(before, "SATOSHI")) =>
                /\ r.res # Ok
                /\ r.app = app

----------------------------------------------------------------------------
(* src/ui/my_team_panel.rs: the market hotkeys of the team panel.          *)
(* Planet::resource_buy_price and resource_sell_price are not part of the  *)
(* sources at hand: a price depends on the resource, and a planet sells    *)
(* above the price at which it buys.                                       *)

base_price(resource) ==
    CASE resource = "GOLD" -> 7
      [] resource = "SCRAPS" -> 5
      [] resource = "RUM" -> 3
      [] resource = "FUEL" -> 1
      [] OTHER -> 0

\* What the team pays the planet for one unit, and what the planet pays.
resource_buy_price(planet, resource) == base_price(resource) + 1
resource_sell_price(planet, resource) == base_price(resource)

UiKeyBuy == [SCRAPS |-> "BUY_SCRAPS", GOLD |-> "BUY_GOLD",
             FUEL |-> "BUY_FUEL", RUM |-> "BUY_RUM"]
UiKeySell == [SCRAPS |-> "SELL_SCRAPS", GOLD |-> "SELL_GOLD",
              FUEL |-> "SELL_FUEL", RUM |-> "SELL_RUM"]
MarketKeys == {UiKeyBuy[x] : x \in MarketResources} \cup {UiKeySell[x] : x \in MarketResources}

\* UiCallbackPreset::TradeResource { resource, amount, unit_cost }
TradeResourcePreset(resource, amount, unit_cost) ==
    [type |-> "TradeResource", resource |-> resource, amount |-> amount,
     unit_cost |-> unit_cost]

\* MyTeamPanel::update: the panel follows the world at every frame.
MyTeamPanel(w) ==
    LET own_team == w.teams[w.own_team_id] IN
    [own_team_id |-> w.own_team_id,
     current_planet_id |-> IF own_team.current_location.type = "OnPlanet"
                           THEN own_team.current_location.planet_id ELSE None,
     players |-> own_team.player_ids]

\* The resource whose price a market key reads.
priced_resource(key) ==
    CHOOSE x \in MarketResources : key \in {UiKeyBuy[x], UiKeySell[x]}

\* The resource a market key puts in its intent: BUY_GOLD names SCRAPS.
traded_resource(key) ==
    IF key = "BUY_GOLD" THEN "SCRAPS" ELSE priced_resource(key)

(* MyTeamPanel::handle_key_events, the market keys *)
handle_key_events(panel, key, w) ==
    IF panel.players = {} THEN Nothing
    ELSE IF key \notin MarketKeys THEN Nothing
    ELSE IF panel.current_planet_id = None THEN Nothing
    ELSE IF panel.current_planet_id \notin DOMAIN w.planets THEN Nothing
    ELSE
    LET planet == w.planets[panel.current_planet_id]
        buys == key \in {UiKeyBuy[x] : x \in MarketResources}
    IN  IF buys
        THEN Some(TradeResourcePreset(traded_resource(key), 1,
                                      resource_buy_price(planet, priced_resource(key))))
        ELSE Some(TradeResourcePreset(traded_resource(key), 0 - 1,
                                      resource_sell_price(planet, priced_resource(key))))

\* C34: on a planet, the key BUY_x gives the intent to buy one x at the
\* planet's buy price of x and SELL_x the intent to sell one x at its sell
\* price of x, for x among SCRAPS, GOLD, FUEL and RUM; off a planet a
\* market key gives no intent.
C34_HotkeyTradesItsResource ==
    LET w == app.world
        panel == MyTeamPanel(w)
    IN  \A x \in MarketResources :
            IF OwnTeam.current_location.type = "OnPlanet"
            THEN LET planet == w.planets[OwnTeam.current_location.planet_id] IN
                 /\ handle_key_events(panel, UiKeyBuy[x], w)
                        = Some(TradeResourcePreset(x, 1, resource_buy_price(planet, x)))
                 /\ handle_key_events(panel, UiKeySell[x], w)
                        = Some(TradeResourcePreset(x, 0 - 1, resource_sell_price(planet, x)))
            ELSE /\ handle_key_events(panel, UiKeyBuy[x], w) = Nothing
                 /\ handle_key_events(panel, UiKeySell[x], w) = Nothing

----------------------------------------------------------------------------
(* Where the market is open (SpecShip) *)

\* The own team is on a planet that has a population.
HasMarket(a) ==
    LET team == OwnTeamOf(a) IN
    /\ team.current_location.type = "OnPlanet"
    /\ team.current_location.planet_id \in DOMAIN a.world.planets
    /\ a.world.planets[team.current_location.planet_id].total_population # 0

\* The application after the intent a market key gives, if it gives one.
AfterMarketKey(a, key) ==
    LET preset == handle_key_events(MyTeamPanel(a.world), key, a.world) IN
    IF preset = Nothing THEN a
    ELSE trade_resource(a, Get(preset).resource, Get(preset).amount,
                        Get(preset).unit_cost).app

\* C35: while the own team is travelling, exploring, on a space adventure
\* or on a planet without population, no market key changes its ledger.
C35_MarketOnlyOnPopulatedPlanet ==
    \A key \in MarketKeys :
        ~HasMarket(app) =>
            OwnTeamOf(AfterMarketKey(app, key)).resources = OwnTeam.resources

----------------------------------------------------------------------------
(* Upgrades of the spaceship: paid when set, applied when pending (SpecShip) *)

\* C36: UpgradeSpaceship applies an upgrade only if it is the team's
\* pending upgrade, otherwise the spaceship stays as it is; an upgrade
\* becomes pending only through a SetUpgradeSpaceship that finds none
\* pending and removes exactly its cost from the ledger; and a completed
\* upgrade leaves no pending upgrade and the full durability.
C36_AppliedOnlyIfPendingAndPaid ==
    \A upgrade \in Upgrades :
        LET set == set_upgrade_spaceship(app, upgrade)
            done == upgrade_spaceship(app, upgrade)
            cost == upgrade_cost(upgrade)
        IN  /\ set.res = Ok =>
                /\ OwnTeam.spaceship.pending_upgrade = Nothing
                /\ OwnTeamOf(set.app).spaceship.pending_upgrade = Some(upgrade)
                /\ \A k \in Resource :
                        value(OwnTeamOf(set.app).resources, k)
                            = value(OwnTeam.resources, k) - value(cost, k)
            /\ done.res = Ok =>
                /\ OwnTeamOf(done.app).spaceship.pending_upgrade = Nothing
                /\ OwnTeamOf(done.app).spaceship.current_durability = MaxDurability
            /\ OwnTeam.spaceship.pending_upgrade # Some(upgrade) =>
                OwnTeamOf(done.app).spaceship = OwnTeam.spaceship

----------------------------------------------------------------------------
(* src/ui/ui_callback.rs: CallbackRegistry.  The two-level map              *)
(* mouse_callbacks is a function on the pairs <<event kind, rect>> it      *)
(* holds, rect being an Option<Rect>, None for a global callback;          *)
(* keyboard_callbacks is a                                                 *)
(* function on the key codes it holds.  The registry is in the variable    *)
(* resources, the last event handled and what it returned in ledger_call.  *)

Rect(x, y, width, height) == [x |-> x, y |-> y, width |-> width, height |-> height]

\* CallbackRegistry::contains.  The areas of a frame end within the screen:
\* rect.x + rect.width and rect.y + rect.height are within u16.
contains_inclusive(rect, x, y) ==
    /\ rect.x <= x /\ x <= rect.x + rect.width
    /\ rect.y <= y /\ y < rect.y + rect.height

contains(rect, x, y) ==
    /\ rect.x <= x /\ x < rect.x + rect.width
    /\ rect.y <= y /\ y < rect.y + rect.height

\* CallbackRegistry::new
NewCallbackRegistry ==
    [mouse_callbacks |-> [k \in {} |-> None], keyboard_callbacks |-> [k \in {} |-> None],
     max_layer |-> 0]

set_max_layer(registry, layer) == [registry EXCEPT !.max_layer = layer]

register_mouse_callback(registry, event_kind, rect, callback) ==
    [registry EXCEPT !.mouse_callbacks =
        [k \in DOMAIN @ \cup {<<event_kind, rect>>} |->
            IF k = <<event_kind, rect>> THEN callback ELSE @[k]]]

register_keyboard_callback(registry, key_code, callback) ==
    [registry EXCEPT !.keyboard_callbacks =
        [k \in DOMAIN @ \cup {key_code} |-> IF k = key_code THEN callback ELSE @[k]]]

clear(registry) ==
    [registry EXCEPT !.mouse_callbacks = [k \in {} |-> None],
                     !.keyboard_callbacks = [k \in {} |-> None],
                     !.max_layer = 0]

\* mouse_callbacks.get(&event.kind): the rects registered for the kind.
RectsOf(registry, event_kind) ==
    {k[2] : k \in {p \in DOMAIN registry.mouse_callbacks : p[1] = event_kind}}

\* The orders in which mouse_callbacks.iter() may visit the rects of a kind:
\* a HashMap gives no order.
IterOrders(rects) ==
    {order \in [1 .. Cardinality(rects) -> rects] :
        \A i, j \in DOMAIN order : i # j => order[i] # order[j]}

\* for (rect, callback) in mouse_callbacks.iter(): the callback of the
\* first rect visited that is None or contains the position.
RECURSIVE first_callback(_, _, _, _)
first_callback(registry, event, order, i) ==
    IF i > Len(order) THEN Nothing
    ELSE IF order[i] = Nothing
    THEN Some(registry.mouse_callbacks[<<event.kind, order[i]>>])
    ELSE IF contains(Get(order[i]), event.column, event.row)
    THEN Some(registry.mouse_callbacks[<<event.kind, order[i]>>])
    ELSE first_callback(registry, event, order, i + 1)

\* CallbackRegistry::handle_mouse_event, the map being visited in order.
handle_mouse_event(registry, event, order) ==
    IF RectsOf(registry, event.kind) = {} THEN Nothing
    ELSE first_callback(registry, event, order, 1)

handle_keyboard_event(registry, key_code) ==
    IF key_code \in DOMAIN registry.keyboard_callbacks
    THEN Some(registry.keyboard_callbacks[key_code])
    ELSE Nothing

(* SpecRegistry: callbacks are registered, the registry is cleared, mouse *)
(* and keyboard events are looked up.                                      *)

MouseEventKinds == {"Down", "Moved"}
KeyCodes == {"Enter"}
UiCallbacks == {"NextUiTab", "Sync"}
Columns == 0 .. 3
Rows == {0}
Layers == {0, 1}

\* Two areas that overlap in column 1, and no area: column 3 is in neither.
RectOptions == {Nothing, Some(Rect(0, 0, 2, 1)), Some(Rect(1, 0, 2, 1))}

MouseEvents == [kind : MouseEventKinds, column : Columns, row : Rows]

InitRegistry ==
    /\ overflow_checks = FALSE
    /\ resources = NewCallbackRegistry
    /\ ledger_call = NoCall
    /\ app = IdleApp /\ peer = IdleApp /\ network = {} /\ now = 0

\* A change of the registry: the last lookup is forgotten.
RegistryStep(registry) ==
    /\ resources' = registry
    /\ ledger_call' = NoCall
    /\ UNCHANGED <<overflow_checks, world_vars>>

\* A lookup: the registry stays as it is.
RegistryLookup(call) ==
    /\ ledger_call' = call
    /\ UNCHANGED <<overflow_checks, resources, world_vars>>

RegisterMouseCallback ==
    \E event_kind \in MouseEventKinds, rect \in RectOptions, callback \in UiCallbacks :
        RegistryStep(register_mouse_callback(resources, event_kind, rect, callback))

RegisterKeyboardCallback ==
    \E key_code \in KeyCodes, callback \in UiCallbacks :
        RegistryStep(register_keyboard_callback(resources, key_code, callback))

SetMaxLayer ==
    \E layer \in Layers : RegistryStep(set_max_layer(resources, layer))

Clear == RegistryStep(clear(resources))

HandleMouseEvent ==
    \E event \in MouseEvents :
        \E order \in IterOrders(RectsOf(resources, event.kind)) :
            RegistryLookup([op |-> "handle_mouse_event", event |-> event,
                            res |-> handle_mouse_event(resources, event, order)])

HandleKeyboardEvent ==
    \E key_code \in KeyCodes :
        RegistryLookup([op |-> "handle_keyboard_event", key_code |-> key_code,
                        res |-> handle_keyboard_event(resources, key_code)])

NextRegistry ==
    \/ RegisterMouseCallback
    \/ RegisterKeyboardCallback
    \/ SetMaxLayer
    \/ Clear
    \/ HandleMouseEvent
    \/ HandleKeyboardEvent

SpecRegistry == InitRegistry /\ [][NextRegistry]_vars

----------------------------------------------------------------------------
(* The callback registry (SpecRegistry) *)

\* The position is within the area.
Inside(rect, column, row) ==
    /\ column \in rect.x .. (rect.x + rect.width - 1)
    /\ row \in rect.y .. (rect.y + rect.height - 1)

\* The callbacks registered for the kind of the event that are global or
\* whose area holds the position of the event.
MatchingCallbacks(registry, event) ==
    {registry.mouse_callbacks[k] :
        k \in {p \in DOMAIN registry.mouse_callbacks :
                /\ p[1] = event.kind
                /\ (p[2] = Nothing \/ Inside(Get(p[2]), event.column, event.row))}}

\* C37: handle_mouse_event returns a callback exactly when one is
\* registered for the kind of the event that is global or whose area holds
\* the position, and the callback returned is one of those, in whatever
\* order the map is visited; a registration for a pair (kind, rect) or a
\* key already present replaces the callback and adds no entry; and after
\* clear() every mouse and keyboard event gives None and max_layer is 0.
C37_RegistryLookup ==
    /\ \A event \in MouseEvents :
            \A order \in IterOrders(RectsOf(resources, event.kind)) :
                LET res == handle_mouse_event(resources, event, order) IN
                /\ res # Nothing <=> MatchingCallbacks(resources, event) # {}
                /\ res \subseteq MatchingCallbacks(resources, event)
    /\ ledger_call # NoCall /\ ledger_call.op = "handle_mouse_event" =>
            /\ ledger_call.res # Nothing
                    <=> MatchingCallbacks(resources, ledger_call.event) # {}
            /\ ledger_call.res \subseteq MatchingCallbacks(resources, ledger_call.event)
    /\ \A event_kind \in MouseEventKinds, rect \in RectOptions, callback \in UiCallbacks :
            LET r == register_mouse_callback(resources, event_kind, rect, callback) IN
            /\ r.mouse_callbacks[<<event_kind, rect>>] = callback
            /\ DOMAIN r.mouse_callbacks
                    = DOMAIN resources.mouse_callbacks \cup {<<event_kind, rect>>}
            /\ \A k \in DOMAIN resources.mouse_callbacks \ {<<event_kind, rect>>} :
                    r.mouse_callbacks[k] = resources.mouse_callbacks[k]
    /\ \A key_code \in KeyCodes, callback \in UiCallbacks :
            LET r == register_keyboard_callback(resources, key_code, callback) IN
            /\ handle_keyboard_event(r, key_code) = Some(callback)
            /\ DOMAIN r.keyboard_callbacks
                    = DOMAIN resources.keyboard_callbacks \cup {key_code}
    /\ LET r == clear(resources) IN
            /\ \A event \in MouseEvents :
                    \A order \in IterOrders(RectsOf(r, event.kind)) :
                        handle_mouse_event(r, event, order) = Nothing
            /\ \A key_code \in KeyCodes : handle_keyboard_event(r, key_code) = Nothing
            /\ r.max_layer = 0

\* A click in the column the two areas share, both registered with
\* different callbacks and no global callback for the kind, has returned
\* one of the two.
C37_Witness ==
    /\ ledger_call # NoCall /\ ledger_call.op = "handle_mouse_event"
    /\ ledger_call.event.column = 1
    /\ ledger_call.res # Nothing
    /\ Cardinality(MatchingCallbacks(resources, ledger_call.event)) = 2
    /\ <<ledger_call.event.kind, Nothing>> \notin DOMAIN resources.mouse_callbacks
    /\ resources.max_layer = 1

----------------------------------------------------------------------------
(* The music player (SpecMusic) *)

\* C38: the player, which has at least one source, is always on a source
\* it has: source_index is Some(i) with i below the number of sources;
\* next then previous, and previous then next, bring the index back,
\* passing from the last source to the first and back; next and previous
\* leave is_playing as it is and two toggles bring it back.
C38_IndexWithinPlaylist ==
    /\ resources.sources >= 1
    /\ resources.source_index # Nothing
    /\ Get(resources.source_index) \in 0 .. (resources.sources - 1)
    /\ previous(next(resources)).source_index = resources.source_index
    /\ next(previous(resources)).source_index = resources.source_index
    /\ Get(resources.source_index) = resources.sources - 1 =>
            next(resources).source_index = Some(0)
    /\ Get(resources.source_index) = 0 =>
            previous(resources).source_index = Some(resources.sources - 1)
    /\ next(resources).is_playing = resources.is_playing
    /\ previous(resources).is_playing = resources.is_playing
    /\ toggle(resources).is_playing # resources.is_playing
    /\ toggle(toggle(resources)).is_playing = resources.is_playing
    /\ ledger_call # NoCall /\ ledger_call.op \in {"next", "previous", "check_if_next"} =>
            resources.is_playing = ledger_call.before.is_playing

\* A player with several sources, playing, has gone back from the first
\* source to the last.
C38_Witness ==
    /\ ledger_call # NoCall /\ ledger_call.op = "previous"
    /\ resources.sources > 1
    /\ ledger_call.before.source_index = Some(0)
    /\ resources.source_index = Some(resources.sources - 1)
    /\ resources.is_playing

====
